---- MODULE Spec2Model ----
(***************************************************************************)
(* Invoice numbering and invoice totals of the invoicing application:      *)
(* the storage layer (server/storage.ts), the invoice form                 *)
(* (client/src/components/invoice/invoice-form.tsx) and the settings page  *)
(* (client/src/pages/settings.tsx).                                        *)
(*                                                                         *)
(* JavaScript strings are sequences of one-character strings, so that      *)
(* replace, parseInt, toString and padStart are computed character by      *)
(* character.                                                              *)
(***************************************************************************)
EXTENDS Integers, Sequences, FiniteSets, TLC

VARIABLES
    clients,            \* table clients: set of rows
    settings,           \* table settings: sequence of rows [key, value]
    invoices,           \* table invoices: rows in order of createdAt
    invoiceItems,       \* table invoice_items: set of rows
    nextId,             \* the next fresh row id (ids are never reused)
    form,               \* per browser: the invoice form that is mounted
    nextInvoiceNumber,  \* per browser: data of the query /api/invoices/next/number
    pc,                 \* per browser: the storage call in flight for its request
    req,                \* per browser: the arguments of that storage call
    seen,               \* history: what the store held when the browser's number was read
    origin,             \* history: for each invoice id, `seen` of the request that made it
    issued,             \* history: the invoice numbers persisted so far, in order
    arg,                \* argument of the function under study (function specifications)
    ret                 \* its result

vars == <<clients, settings, invoices, invoiceItems, nextId, form, nextInvoiceNumber,
          pc, req, seen, origin, issued, arg, ret>>

-----------------------------------------------------------------------------
(* Bounds of the model *)

MaxInvoices == 2

\* The invoices created in a behaviour of sequential operations.
MaxSeqInvoices == 4

MaxSuffix == 10001

\* The submits of the form in a behaviour of the submitting form.
MaxSubmits == 3

-----------------------------------------------------------------------------
(* JavaScript values *)

\* A value that may be undefined: undefined, or Some(v).
Undefined == [defined |-> FALSE, value |-> <<>>]

Some(v) == [defined |-> TRUE, value |-> v]

\* An integer-valued number, or NaN.
NaN == [nan |-> TRUE, val |-> 0]

Num(v) == [nan |-> FALSE, val |-> v]

DigitChars == <<"0", "1", "2", "3", "4", "5", "6", "7", "8", "9">>

IsDigit(ch) == \E d \in 1..10 : DigitChars[d] = ch

DigitVal(ch) == (CHOOSE d \in 1..10 : DigitChars[d] = ch) - 1

HexChars == <<"a", "b", "c", "d", "e", "f">>

HexCharsUpper == <<"A", "B", "C", "D", "E", "F">>

IsHexDigit(ch) == IsDigit(ch) \/ \E d \in 1..6 : HexChars[d] = ch \/ HexCharsUpper[d] = ch

HexVal(ch) ==
    IF IsDigit(ch) THEN DigitVal(ch)
    ELSE 9 + (CHOOSE d \in 1..6 : HexChars[d] = ch \/ HexCharsUpper[d] = ch)

IsWhiteSpace(ch) == ch \in {" ", "\t", "\n"}

\* String.prototype.indexOf: the first position where pat occurs in s, 0 if none.
IndexOf(s, pat) ==
    LET hits == {i \in 1..(Len(s) - Len(pat) + 1) : SubSeq(s, i, i + Len(pat) - 1) = pat}
    IN  IF hits = {} THEN 0 ELSE CHOOSE i \in hits : \A j \in hits : i <= j

\* s.replace(pat, ''): a string pattern replaces its first occurrence only.
ReplaceWithEmpty(s, pat) ==
    LET i == IndexOf(s, pat)
    IN  IF i = 0 THEN s
        ELSE SubSeq(s, 1, i - 1) \o SubSeq(s, i + Len(pat), Len(s))

RECURSIVE TrimStart(_)
TrimStart(s) ==
    IF s # <<>> /\ IsWhiteSpace(Head(s)) THEN TrimStart(Tail(s)) ELSE s

\* The value of the longest run of digits (of the radix) that s starts with,
\* NaN if s starts with none.
RECURSIVE DigitsValue(_, _, _, _)
DigitsValue(s, radix, acc, any) ==
    IF s # <<>> /\ (IF radix = 16 THEN IsHexDigit(Head(s)) ELSE IsDigit(Head(s)))
    THEN DigitsValue(Tail(s), radix, acc * radix + HexVal(Head(s)), TRUE)
    ELSE IF any THEN Num(acc) ELSE NaN

\* parseInt(s) without a radix: leading white space is skipped, a sign is read,
\* "0x"/"0X" selects radix 16, and parsing stops at the first other character.
parseInt(s) ==
    LET t    == TrimStart(s)
        neg  == t # <<>> /\ Head(t) = "-"
        u    == IF t # <<>> /\ Head(t) \in {"-", "+"} THEN Tail(t) ELSE t
        hex  == Len(u) >= 2 /\ u[1] = "0" /\ u[2] \in {"x", "X"}
        v    == IF hex THEN DigitsValue(SubSeq(u, 3, Len(u)), 16, 0, FALSE)
                ELSE DigitsValue(u, 10, 0, FALSE)
    IN  IF v.nan THEN NaN ELSE IF neg THEN Num(0 - v.val) ELSE v

\* x + 1 on a number: NaN + 1 is NaN.
PlusOne(x) == IF x.nan THEN NaN ELSE Num(x.val + 1)

RECURSIVE NatToString(_)
NatToString(n) ==
    IF n < 10 THEN <<DigitChars[n + 1]>>
    ELSE NatToString(n \div 10) \o <<DigitChars[(n % 10) + 1]>>

\* Number.prototype.toString on an integer or NaN.
IntToString(x) ==
    IF x.nan THEN <<"N", "a", "N">>
    ELSE IF x.val < 0 THEN <<"-">> \o NatToString(0 - x.val)
    ELSE NatToString(x.val)

\* A variant of padStart that keeps the last n characters of a longer string.
RECURSIVE padStartKeepLast(_, _)
padStartKeepLast(s, n) ==
    IF Len(s) > n THEN SubSeq(s, Len(s) - n + 1, Len(s))
    ELSE IF Len(s) = n THEN s
    ELSE padStartKeepLast(<<"0">> \o s, n)

\* s.padStart(n, '0'): never shortens s.
RECURSIVE padStart(_, _)
padStart(s, n) == IF Len(s) >= n THEN s ELSE padStart(<<"0">> \o s, n)

-----------------------------------------------------------------------------
(* JavaScript numbers with fractions: binary floating point, every operation  *)
(* rounded to the nearest value, ties to even (IEEE 754), with a significand  *)
(* of FloatBits bits. A number is m * 2^e with m odd, or m = 0 and e = 0.     *)

FloatBits == 10

\* The element of a set of one element. In Only({f(x) : x \in {a}}) the operand a
\* is evaluated once and f is applied to its value, as a call evaluates its
\* arguments and const its right-hand side.
Only(S) == CHOOSE v \in S : TRUE

RECURSIVE Pow(_, _)
Pow(b, n) == IF n = 0 THEN 1 ELSE b * Pow(b, n - 1)

Abs(x) == IF x < 0 THEN 0 - x ELSE x

Sign(x) == IF x < 0 THEN 0 - 1 ELSE 1

\* The number of bits of a natural number: 0 for 0.
RECURSIVE BitLen(_)
BitLen(n) == Only({IF v = 0 THEN 0 ELSE 1 + BitLen(v \div 2) : v \in {n}})

Zero == [m |-> 0, e |-> 0]

RECURSIVE Normal(_, _)
Normal(m, e) ==
    Only({IF v = 0 THEN Zero
          ELSE IF v % 2 = 0 THEN Normal(v \div 2, w + 1)
          ELSE [m |-> v, e |-> w] : v \in {m}, w \in {e}})

FromInt(n) == Normal(n, 0)

\* n * 2^e for a natural n, rounded to FloatBits bits, ties to even.
RoundNat(n, e) ==
    Only({IF s <= 0 THEN Normal(v, e)
          ELSE LET q    == v \div Pow(2, s)
                   r    == v % Pow(2, s)
                   half == Pow(2, s - 1)
                   up   == r > half \/ (r = half /\ q % 2 = 1)
               IN  Normal(IF up THEN q + 1 ELSE q, e + s)
          : v \in {n}, s \in {BitLen(n) - FloatBits}})

\* The quotient and remainder of n * 2^k by d, one quotient bit at a time.
RECURSIVE LongDiv(_, _, _)
LongDiv(n, d, k) ==
    IF k = 0 THEN [q |-> n \div d, r |-> n % d]
    ELSE Only({LET bit == IF 2 * p.r >= d THEN 1 ELSE 0
               IN  [q |-> 2 * p.q + bit, r |-> 2 * p.r - bit * d]
               : p \in {LongDiv(n, d, k - 1)}})

\* (n / d) * 2^e for naturals n and d > 0, rounded: the quotient is taken to
\* FloatBits + 2 bits at least and one more bit records a remainder.
RoundRat(n, d, e) ==
    Only({IF v = 0 THEN Zero
          ELSE LET k == IF FloatBits + 2 + BitLen(w) - BitLen(v) > 0
                        THEN FloatBits + 2 + BitLen(w) - BitLen(v) ELSE 0
               IN  Only({RoundNat(2 * qr.q + (IF qr.r = 0 THEN 0 ELSE 1), e - k - 1)
                         : qr \in {LongDiv(v, w, k)}})
          : v \in {n}, w \in {d}})

Neg(a) == [m |-> 0 - a.m, e |-> a.e]

WithSign(sg, a) == IF sg < 0 THEN Neg(a) ELSE a

\* a * b
fmul(a, b) ==
    Only({WithSign(Sign(x.m) * Sign(y.m), RoundNat(Abs(x.m) * Abs(y.m), x.e + y.e))
          : x \in {a}, y \in {b}})

\* a / b, b not zero
fdiv(a, b) ==
    Only({WithSign(Sign(x.m) * Sign(y.m), RoundRat(Abs(x.m), Abs(y.m), x.e - y.e))
          : x \in {a}, y \in {b}})

\* The exponent of the leading bit of a, plus one.
Top(a) == a.e + BitLen(Abs(a.m))

\* a + b: the exact sum, rounded. An operand that lies entirely more than two
\* bits below the other's last bit cannot change the rounded result.
fadd(a, b) ==
    Only({IF x.m = 0 THEN y
          ELSE IF y.m = 0 THEN x
          ELSE IF Top(x) - Top(y) > FloatBits + 2 THEN x
          ELSE IF Top(y) - Top(x) > FloatBits + 2 THEN y
          ELSE LET e   == IF x.e < y.e THEN x.e ELSE y.e
                   sum == x.m * Pow(2, x.e - e) + y.m * Pow(2, y.e - e)
               IN  WithSign(Sign(sum), RoundNat(Abs(sum), e))
          : x \in {a}, y \in {b}})

\* a - b
fsub(a, b) == fadd(a, Neg(b))

\* a < b: the rounded difference has the sign of the exact one.
flt(a, b) == fsub(a, b).m < 0

\* s * 10^(-j) for a natural s and an integer j, rounded: 10^j is 5^j * 2^j.
FromDecimal(s, j) ==
    IF j >= 0 THEN RoundRat(s, Pow(5, j), 0 - j)
    ELSE RoundNat(s * Pow(5, 0 - j), 0 - j)

\* x >= 10^j, for a number x > 0.
Geq10(x, j) ==
    IF j >= 0
    THEN IF Top(x) <= 0 THEN FALSE
         ELSE IF x.e >= 0 THEN x.m * Pow(2, x.e) >= Pow(10, j)
         ELSE x.m >= Pow(10, j) * Pow(2, 0 - x.e)
    ELSE IF Top(x) > 0 THEN TRUE
         ELSE IF j - x.e <= 0 THEN TRUE
         ELSE IF j - x.e >= 31 THEN FALSE
         ELSE x.m * Pow(5, 0 - j) >= Pow(2, j - x.e)

\* The n with 10^(n-1) <= x < 10^n, for a number x > 0.
RECURSIVE DecimalExponentFrom(_, _)
DecimalExponentFrom(x, j) ==
    Only({IF Geq10(x, i) THEN DecimalExponentFrom(x, i + 1) ELSE i : i \in {j}})

DecimalExponent(x) == DecimalExponentFrom(x, 0 - 8)

\* x * 10^j for a number x > 0: its integer part lo, and how its fraction
\* compares with one half (frac: -1 below, 0 equal, 1 above; exact: no fraction).
Scaled(x, j) ==
    Only({[lo    |-> (num \div den) * (IF j >= 0 /\ x.e + j >= 0 THEN Pow(2, x.e + j) ELSE 1),
           exact |-> num % den = 0,
           frac  |-> IF 2 * (num % den) < den THEN 0 - 1
                     ELSE IF 2 * (num % den) = den THEN 0 ELSE 1]
          : num \in {IF j >= 0 THEN x.m * Pow(5, j)
                     ELSE IF x.e >= 0 THEN x.m * Pow(2, x.e) ELSE x.m},
            den \in {IF j >= 0 THEN (IF x.e + j >= 0 THEN 1 ELSE Pow(2, 0 - (x.e + j)))
                     ELSE IF x.e >= 0 THEN Pow(10, 0 - j)
                     ELSE Pow(10, 0 - j) * Pow(2, 0 - x.e)}})

\* The shortest decimal s * 10^(-j) that reads back as x (x > 0): the fewest
\* digits first, and of two decimals with as many digits the one nearer to x.
RECURSIVE ShortestFrom(_, _, _)
ShortestFrom(x, n, nd) ==
    Only({LET lo == [s |-> sc.lo, j |-> j]
              hi == [s |-> sc.lo + 1, j |-> j]
          IN  Only({IF okLo /\ okHi
                    THEN (IF sc.frac < 0 \/ (sc.frac = 0 /\ sc.lo % 2 = 0) THEN lo ELSE hi)
                    ELSE IF okLo THEN lo
                    ELSE IF okHi THEN hi
                    ELSE ShortestFrom(x, n, nd + 1)
                    : okLo \in {sc.lo > 0 /\ FromDecimal(sc.lo, j) = x},
                      okHi \in {~sc.exact /\ FromDecimal(sc.lo + 1, j) = x}})
          : j \in {nd - n}, sc \in {Scaled(x, nd - n)}})

RECURSIVE StripZeros(_)
StripZeros(d) ==
    Only({IF v.s % 10 = 0 THEN StripZeros([s |-> v.s \div 10, j |-> v.j - 1]) ELSE v
          : v \in {d}})

Shortest(x) ==
    Only({StripZeros(ShortestFrom(v, n, 1)) : v \in {x}, n \in {DecimalExponent(x)}})

RECURSIVE Zeros(_)
Zeros(n) == IF n <= 0 THEN <<>> ELSE <<"0">> \o Zeros(n - 1)

\* The digits of the decimal d, laid out as Number.prototype.toString lays them out.
Layout(d, digits) ==
    LET k == Len(digits)
        n == k - d.j
    IN  IF k <= n /\ n <= 21 THEN digits \o Zeros(n - k)
        ELSE IF 0 < n /\ n <= 21
             THEN SubSeq(digits, 1, n) \o <<".">> \o SubSeq(digits, n + 1, k)
        ELSE IF 0 - 6 < n /\ n <= 0
             THEN <<"0", ".">> \o Zeros(0 - n) \o digits
        ELSE (IF k = 1 THEN digits
              ELSE <<digits[1], ".">> \o SubSeq(digits, 2, k))
             \o <<"e", IF n - 1 < 0 THEN "-" ELSE "+">> \o NatToString(Abs(n - 1))

\* Number.prototype.toString (radix 10) of a finite number.
toString(x) ==
    Only({IF v.m = 0 THEN <<"0">>
          ELSE Only({(IF v.m < 0 THEN <<"-">> ELSE <<>>)
                        \o Only({Layout(d, digits) : digits \in {NatToString(d.s)}})
                     : d \in {Shortest([m |-> Abs(v.m), e |-> v.e])}})
          : v \in {x}})

\* The run of decimal digits s starts with.
RECURSIVE DigitRun(_)
DigitRun(s) ==
    Only({IF v # <<>> /\ IsDigit(Head(v)) THEN <<Head(v)>> \o DigitRun(Tail(v)) ELSE <<>>
          : v \in {s}})

RECURSIVE DigitsToNat(_, _)
DigitsToNat(s, acc) ==
    Only({IF v = <<>> THEN a ELSE DigitsToNat(Tail(v), a * 10 + DigitVal(Head(v)))
          : v \in {s}, a \in {acc}})

\* The exponent that rest starts with ("e" or "E", a sign, digits), 0 when it
\* starts with none.
ExponentOf(rest) ==
    IF Len(rest) >= 2 /\ rest[1] \in {"e", "E"}
    THEN Only({IF ep = <<>> THEN 0
               ELSE IF rest[2] = "-" THEN 0 - DigitsToNat(ep, 0)
               ELSE DigitsToNat(ep, 0)
               : ep \in {DigitRun(IF rest[2] \in {"-", "+"} THEN SubSeq(rest, 3, Len(rest))
                                  ELSE Tail(rest))}})
    ELSE 0

\* The number with integer digits ip and fraction digits fp, followed by rest.
DecimalOf(ip, fp, rest) ==
    IF ip = <<>> /\ fp = <<>> THEN [nan |-> TRUE, num |-> Zero]
    ELSE [nan |-> FALSE,
          num |-> FromDecimal(DigitsToNat(ip \o fp, 0), Len(fp) - ExponentOf(rest))]

\* The number of the unsigned decimal literal that u starts with (digits, a
\* fraction, an exponent), NaN when it starts with none.
UnsignedLiteral(u) ==
    Only({IF Len(u) > Len(ip) /\ u[Len(ip) + 1] = "."
          THEN Only({DecimalOf(ip, fp, SubSeq(u, Len(ip) + Len(fp) + 2, Len(u)))
                     : fp \in {DigitRun(SubSeq(u, Len(ip) + 2, Len(u)))}})
          ELSE DecimalOf(ip, <<>>, SubSeq(u, Len(ip) + 1, Len(u)))
          : ip \in {DigitRun(u)}})

\* parseFloat(s): leading white space is skipped, then a sign and the longest
\* prefix that is a decimal literal are read.
parseFloat(str) ==
    Only({Only({[nan |-> v.nan,
                 num |-> IF t # <<>> /\ Head(t) = "-" THEN Neg(v.num) ELSE v.num]
                : v \in {UnsignedLiteral(IF t # <<>> /\ Head(t) \in {"-", "+"}
                                         THEN Tail(t) ELSE t)}})
          : t \in {TrimStart(str)}})

-----------------------------------------------------------------------------
(* Storage: settings *)

DefaultPrefix == <<"I", "N", "V", "-">>

\* DatabaseStorage.getSetting: the value of the first row with the key.
getSetting(table, key) ==
    LET hits == {i \in 1..Len(table) : table[i].key = key}
    IN  IF hits = {} THEN Undefined
        ELSE Some(table[CHOOSE i \in hits : \A j \in hits : i <= j].value)

\* a || b on a string that may be undefined: undefined and '' are falsy.
OrElse(a, b) == IF ~a.defined \/ a.value = <<>> THEN b ELSE a.value

\* A variant of setSetting that inserts a row whether or not the key is stored.
setSettingAlwaysInsert(table, key, value) == Append(table, [key |-> key, value |-> value])

\* DatabaseStorage.setSetting: update the rows with the key, insert when none.
setSetting(table, key, value) ==
    IF \E i \in 1..Len(table) : table[i].key = key
    THEN [i \in 1..Len(table) |->
            IF table[i].key = key THEN [table[i] EXCEPT !.value = value] ELSE table[i]]
    ELSE Append(table, [key |-> key, value |-> value])

-----------------------------------------------------------------------------
(* Storage: the invoice number allocator *)

\* A variant of LastInvoice that orders by createdAt ascending.
FirstInvoice(invs) == invs[1]

\* The row select().from(invoices).orderBy(desc(createdAt)).limit(1) returns.
LastInvoice(invs) == invs[Len(invs)]

\* A variant of NextOfLast that does not pad the incremented number.
NextOfLastUnpadded(prefix, lastInvoiceNumber) ==
    prefix \o IntToString(PlusOne(parseInt(ReplaceWithEmpty(lastInvoiceNumber, prefix))))

\* lastNumber, nextNumber and the returned string of getNextInvoiceNumber.
NextOfLast(prefix, lastInvoiceNumber) ==
    LET lastNumber == ReplaceWithEmpty(lastInvoiceNumber, prefix)
        nextNumber == padStart(IntToString(PlusOne(parseInt(lastNumber))), 4)
    IN  prefix \o nextNumber

\* A variant of getNextInvoiceNumber that starts an empty store at 0000.
getNextInvoiceNumberFromZero(invs, sets) ==
    LET prefix == OrElse(getSetting(sets, "invoice_prefix"), DefaultPrefix)
    IN  IF Len(invs) = 0 THEN prefix \o <<"0", "0", "0", "0">>
        ELSE prefix \o padStart(IntToString(PlusOne(parseInt(
                 ReplaceWithEmpty(invs[Len(invs)].invoiceNumber, prefix)))), 4)

\* DatabaseStorage.getNextInvoiceNumber
getNextInvoiceNumber(invs, sets) ==
    LET prefix == OrElse(getSetting(sets, "invoice_prefix"), DefaultPrefix)
    IN  IF Len(invs) = 0 THEN prefix \o <<"0", "0", "0", "1">>
        ELSE NextOfLast(prefix, LastInvoice(invs).invoiceNumber)

-----------------------------------------------------------------------------
(* The invoice form: validation and the totals computed before a save *)

Hundred == FromInt(100)

\* invoiceItemSchema, on the coerced numbers of one line.
invoiceItemSchema(item) ==
    /\ item.description # ""
    /\ ~flt(item.quantity, FromDecimal(1, 2))
    /\ ~flt(item.rate, Zero)
    /\ ~flt(item.taxRate, Zero) /\ ~flt(Hundred, item.taxRate)
    /\ ~flt(item.discountRate, Zero) /\ ~flt(Hundred, item.discountRate)

\* A variant of invoiceFormSchema that does not require a client.
invoiceFormSchemaAnyClient(data) ==
    /\ data.date # ""
    /\ data.dueDate # ""
    /\ data.status \in {"draft", "sent", "paid", "overdue"}
    /\ data.currency \in {"INR", "USD", "EUR", "GBP"}
    /\ Len(data.items) >= 1
    /\ \A i \in 1..Len(data.items) : invoiceItemSchema(data.items[i])

\* invoiceFormSchema
invoiceFormSchema(data) ==
    /\ data.clientId # ""
    /\ data.date # ""
    /\ data.dueDate # ""
    /\ data.status \in {"draft", "sent", "paid", "overdue"}
    /\ data.currency \in {"INR", "USD", "EUR", "GBP"}
    /\ Len(data.items) >= 1
    /\ \A i \in 1..Len(data.items) : invoiceItemSchema(data.items[i])

\* A variant of createCalculatedItem that taxes the line before the discount.
createCalculatedItemTaxFirst(item) ==
    LET lineSubtotal == fmul(item.quantity, item.rate)
        discount     == fdiv(fmul(lineSubtotal, item.discountRate), Hundred)
        tax          == fdiv(fmul(lineSubtotal, item.taxRate), Hundred)
        amount       == fadd(fsub(lineSubtotal, discount), tax)
    IN  [description  |-> item.description,
         quantity     |-> toString(item.quantity),
         rate         |-> toString(item.rate),
         taxRate      |-> toString(item.taxRate),
         discountRate |-> toString(item.discountRate),
         amount       |-> toString(amount)]

\* createInvoiceMutation: one element of calculatedItems.
createCalculatedItem(item) ==
    LET lineSubtotal          == fmul(item.quantity, item.rate)
        discount              == fdiv(fmul(lineSubtotal, item.discountRate), Hundred)
        subtotalAfterDiscount == fsub(lineSubtotal, discount)
        tax                   == fdiv(fmul(subtotalAfterDiscount, item.taxRate), Hundred)
        amount                == fadd(subtotalAfterDiscount, tax)
    IN  [description  |-> item.description,
         quantity     |-> toString(item.quantity),
         rate         |-> toString(item.rate),
         taxRate      |-> toString(item.taxRate),
         discountRate |-> toString(item.discountRate),
         amount       |-> toString(amount)]

RECURSIVE createCalculatedItems(_)
createCalculatedItems(items) ==
    IF items = <<>> THEN <<>>
    ELSE <<createCalculatedItem(Head(items))>> \o createCalculatedItems(Tail(items))

\* createInvoiceMutation: subtotal, the reduce over the first n calculated items.
RECURSIVE createSubtotal(_, _)
createSubtotal(calc, n) ==
    IF n = 0 THEN Zero
    ELSE LET item         == calc[n]
             lineSubtotal == fmul(parseFloat(item.quantity).num, parseFloat(item.rate).num)
         IN  fadd(createSubtotal(calc, n - 1), lineSubtotal)

\* createInvoiceMutation: totalDiscount
RECURSIVE createTotalDiscount(_, _)
createTotalDiscount(calc, n) ==
    IF n = 0 THEN Zero
    ELSE LET item         == calc[n]
             lineSubtotal == fmul(parseFloat(item.quantity).num, parseFloat(item.rate).num)
             discount     == fdiv(fmul(lineSubtotal, parseFloat(item.discountRate).num), Hundred)
         IN  fadd(createTotalDiscount(calc, n - 1), discount)

\* A variant of createTotalTax that taxes the lines before their discounts.
RECURSIVE createTotalTaxBeforeDiscount(_, _)
createTotalTaxBeforeDiscount(calc, n) ==
    IF n = 0 THEN Zero
    ELSE LET item         == calc[n]
             lineSubtotal == fmul(parseFloat(item.quantity).num, parseFloat(item.rate).num)
             tax          == fdiv(fmul(lineSubtotal, parseFloat(item.taxRate).num), Hundred)
         IN  fadd(createTotalTaxBeforeDiscount(calc, n - 1), tax)

\* createInvoiceMutation: totalTax
RECURSIVE createTotalTax(_, _)
createTotalTax(calc, n) ==
    IF n = 0 THEN Zero
    ELSE LET item                  == calc[n]
             lineSubtotal          == fmul(parseFloat(item.quantity).num, parseFloat(item.rate).num)
             discount              == fdiv(fmul(lineSubtotal, parseFloat(item.discountRate).num), Hundred)
             subtotalAfterDiscount == fsub(lineSubtotal, discount)
             tax                   == fdiv(fmul(subtotalAfterDiscount, parseFloat(item.taxRate).num), Hundred)
         IN  fadd(createTotalTax(calc, n - 1), tax)

\* A variant of createTotal that leaves the discount out.
createTotalNoDiscount(subtotal, totalDiscount, totalTax) == fadd(subtotal, totalTax)

\* createInvoiceMutation: total
createTotal(subtotal, totalDiscount, totalTax) == fadd(fsub(subtotal, totalDiscount), totalTax)

\* nextInvoiceNumber?.invoiceNumber || "INV-0001"
NumberOrFallback(cached) == OrElse(cached, <<"I", "N", "V", "-", "0", "0", "0", "1">>)

\* createInvoiceMutation: invoicePayload
createInvoicePayload(data, cached) ==
    Only({Only({[clientId       |-> data.clientId,
                 status         |-> data.status,
                 currency       |-> data.currency,
                 date           |-> data.date,
                 dueDate        |-> data.dueDate,
                 invoiceNumber  |-> NumberOrFallback(cached),
                 subtotal       |-> toString(subtotal),
                 taxAmount      |-> toString(totalTax),
                 discountAmount |-> toString(totalDiscount),
                 total          |-> toString(createTotal(subtotal, totalDiscount, totalTax))]
                : subtotal      \in {createSubtotal(calc, Len(calc))},
                  totalDiscount \in {createTotalDiscount(calc, Len(calc))},
                  totalTax      \in {createTotalTax(calc, Len(calc))}})
          : calc \in {createCalculatedItems(data.items)}})

\* updateInvoiceMutation: one element of calculatedItems.
updateCalculatedItem(item) ==
    LET lineSubtotal          == fmul(item.quantity, item.rate)
        discount              == fdiv(fmul(lineSubtotal, item.discountRate), Hundred)
        subtotalAfterDiscount == fsub(lineSubtotal, discount)
        tax                   == fdiv(fmul(subtotalAfterDiscount, item.taxRate), Hundred)
        amount                == fadd(subtotalAfterDiscount, tax)
    IN  [description  |-> item.description,
         quantity     |-> toString(item.quantity),
         rate         |-> toString(item.rate),
         taxRate      |-> toString(item.taxRate),
         discountRate |-> toString(item.discountRate),
         amount       |-> toString(amount)]

RECURSIVE updateCalculatedItems(_)
updateCalculatedItems(items) ==
    IF items = <<>> THEN <<>>
    ELSE <<updateCalculatedItem(Head(items))>> \o updateCalculatedItems(Tail(items))

\* updateInvoiceMutation: subtotal
RECURSIVE updateSubtotal(_, _)
updateSubtotal(calc, n) ==
    IF n = 0 THEN Zero
    ELSE LET item         == calc[n]
             lineSubtotal == fmul(parseFloat(item.quantity).num, parseFloat(item.rate).num)
         IN  fadd(updateSubtotal(calc, n - 1), lineSubtotal)

\* updateInvoiceMutation: totalDiscount
RECURSIVE updateTotalDiscount(_, _)
updateTotalDiscount(calc, n) ==
    IF n = 0 THEN Zero
    ELSE LET item         == calc[n]
             lineSubtotal == fmul(parseFloat(item.quantity).num, parseFloat(item.rate).num)
             discount     == fdiv(fmul(lineSubtotal, parseFloat(item.discountRate).num), Hundred)
         IN  fadd(updateTotalDiscount(calc, n - 1), discount)

\* updateInvoiceMutation: totalTax
RECURSIVE updateTotalTax(_, _)
updateTotalTax(calc, n) ==
    IF n = 0 THEN Zero
    ELSE LET item                  == calc[n]
             lineSubtotal          == fmul(parseFloat(item.quantity).num, parseFloat(item.rate).num)
             discount              == fdiv(fmul(lineSubtotal, parseFloat(item.discountRate).num), Hundred)
             subtotalAfterDiscount == fsub(lineSubtotal, discount)
             tax                   == fdiv(fmul(subtotalAfterDiscount, parseFloat(item.taxRate).num), Hundred)
         IN  fadd(updateTotalTax(calc, n - 1), tax)

\* updateInvoiceMutation: total
updateTotal(subtotal, totalDiscount, totalTax) == fadd(fsub(subtotal, totalDiscount), totalTax)

\* A variant of updateInvoicePayload that carries an invoiceNumber.
updateInvoicePayloadWithNumber(data) ==
    [clientId       |-> data.clientId,
     status         |-> data.status,
     currency       |-> data.currency,
     date           |-> data.date,
     dueDate        |-> data.dueDate,
     invoiceNumber  |-> <<"I", "N", "V", "-", "0", "0", "0", "0">>,
     subtotal       |-> <<"0">>,
     taxAmount      |-> <<"0">>,
     discountAmount |-> <<"0">>,
     total          |-> <<"0">>]

\* updateInvoiceMutation: invoicePayload. It carries no invoiceNumber.
updateInvoicePayload(data) ==
    Only({Only({[clientId       |-> data.clientId,
                 status         |-> data.status,
                 currency       |-> data.currency,
                 date           |-> data.date,
                 dueDate        |-> data.dueDate,
                 subtotal       |-> toString(subtotal),
                 taxAmount      |-> toString(totalTax),
                 discountAmount |-> toString(totalDiscount),
                 total          |-> toString(updateTotal(subtotal, totalDiscount, totalTax))]
                : subtotal      \in {updateSubtotal(calc, Len(calc))},
                  totalDiscount \in {updateTotalDiscount(calc, Len(calc))},
                  totalTax      \in {updateTotalTax(calc, Len(calc))}})
          : calc \in {updateCalculatedItems(data.items)}})

-----------------------------------------------------------------------------
(* The invoice form: the values its fields hold before validation.           *)
(* A field holds undefined (a new line's quantity and rate), the string of   *)
(* its input (quantity and rate once typed) or a number (tax and discount    *)
(* rate, and every field of a line loaded from a stored invoice). A number   *)
(* is [nan, num]: NaN, or the finite number num.                             *)

NotANumber == [nan |-> TRUE, num |-> Zero]

Finite(x) == [nan |-> FALSE, num |-> x]

JUndefined == [t |-> "undefined", s |-> <<>>, n |-> NotANumber]

JString(str) == [t |-> "string", s |-> str, n |-> NotANumber]

JNumber(x) == [t |-> "number", s |-> <<>>, n |-> x]

RECURSIVE TrimEnd(_)
TrimEnd(s) ==
    IF s # <<>> /\ IsWhiteSpace(s[Len(s)]) THEN TrimEnd(SubSeq(s, 1, Len(s) - 1)) ELSE s

\* The exponent part of a decimal literal, or nothing.
IsExponentPart(rest) ==
    \/ rest = <<>>
    \/ /\ Len(rest) >= 2
       /\ rest[1] \in {"e", "E"}
       /\ LET ds == IF rest[2] \in {"-", "+"} THEN SubSeq(rest, 3, Len(rest)) ELSE Tail(rest)
          IN  ds # <<>> /\ DigitRun(ds) = ds

\* The whole of u is an unsigned decimal literal: digits, a fraction, an exponent.
IsUnsignedDecimal(u) ==
    LET ip == DigitRun(u)
        afterInt == SubSeq(u, Len(ip) + 1, Len(u))
    IN  IF afterInt # <<>> /\ Head(afterInt) = "."
        THEN LET fp == DigitRun(Tail(afterInt))
             IN  /\ ip # <<>> \/ fp # <<>>
                 /\ IsExponentPart(SubSeq(afterInt, Len(fp) + 2, Len(afterInt)))
        ELSE ip # <<>> /\ IsExponentPart(afterInt)

\* Number(string): white space is trimmed, the empty string is 0, a string that
\* is a decimal literal as a whole is its number and any other string NaN. (The
\* literals 0x.., 0b.., 0o.. and Infinity are not values of a number input.)
StringToNumber(str) ==
    LET t == TrimEnd(TrimStart(str))
        u == IF t # <<>> /\ Head(t) \in {"-", "+"} THEN Tail(t) ELSE t
    IN  IF t = <<>> THEN Finite(Zero)
        ELSE IF IsUnsignedDecimal(u) THEN parseFloat(t)
        ELSE NotANumber

\* Number(v), the conversion of the operands of * and of z.coerce.number().
ToNumber(v) ==
    IF v.t = "undefined" THEN NotANumber
    ELSE IF v.t = "string" THEN StringToNumber(v.s)
    ELSE v.n

\* v || 0
OrZero(v) ==
    IF \/ v.t = "undefined"
       \/ v.t = "string" /\ v.s = <<>>
       \/ v.t = "number" /\ (v.n.nan \/ v.n.num = Zero)
    THEN JNumber(Finite(Zero))
    ELSE v

\* The arithmetic of numbers that may be NaN.
jmul(a, b) == IF a.nan \/ b.nan THEN NotANumber ELSE Finite(fmul(a.num, b.num))

jdiv(a, b) == IF a.nan \/ b.nan THEN NotANumber ELSE Finite(fdiv(a.num, b.num))

jadd(a, b) == IF a.nan \/ b.nan THEN NotANumber ELSE Finite(fadd(a.num, b.num))

jsub(a, b) == IF a.nan \/ b.nan THEN NotANumber ELSE Finite(fsub(a.num, b.num))

\* Number.prototype.toString of a number that may be NaN.
jtoString(x) == IF x.nan THEN <<"N", "a", "N">> ELSE toString(x.num)

\* v.toString() of a string or a number; on undefined the call throws.
ValueToString(v) == IF v.t = "string" THEN v.s ELSE jtoString(v.n)

-----------------------------------------------------------------------------
(* The invoice form: what each of its paths makes of the values of the form  *)

\* The result of a path: nothing computed (the form was rejected, or the handler
\* threw), or the line amounts and the four aggregates.
NotComputed(outcome) ==
    [outcome |-> outcome, amounts |-> <<>>, subtotal |-> <<>>, discountAmount |-> <<>>,
     taxAmount |-> <<>>, total |-> <<>>]

RECURSIVE AmountsOf(_)
AmountsOf(calc) ==
    IF calc = <<>> THEN <<>> ELSE <<Head(calc).amount>> \o AmountsOf(Tail(calc))

Computed(calc, payload) ==
    [outcome |-> "computed", amounts |-> AmountsOf(calc), subtotal |-> payload.subtotal,
     discountAmount |-> payload.discountAmount, taxAmount |-> payload.taxAmount,
     total |-> payload.total]

\* z.coerce.number() on the four numeric fields of a line: Number(value).
CoerceItem(item) ==
    [description  |-> item.description,
     quantity     |-> ToNumber(item.quantity),
     rate         |-> ToNumber(item.rate),
     taxRate      |-> ToNumber(item.taxRate),
     discountRate |-> ToNumber(item.discountRate)]

RECURSIVE CoerceItems(_)
CoerceItems(items) ==
    IF items = <<>> THEN <<>> ELSE <<CoerceItem(Head(items))>> \o CoerceItems(Tail(items))

\* z.number() rejects NaN before it compares with min and max.
IsNumbers(item) ==
    ~item.quantity.nan /\ ~item.rate.nan /\ ~item.taxRate.nan /\ ~item.discountRate.nan

NumbersOf(item) ==
    [description  |-> item.description,
     quantity     |-> item.quantity.num,
     rate         |-> item.rate.num,
     taxRate      |-> item.taxRate.num,
     discountRate |-> item.discountRate.num]

RECURSIVE NumbersOfAll(_)
NumbersOfAll(items) ==
    IF items = <<>> THEN <<>> ELSE <<NumbersOf(Head(items))>> \o NumbersOfAll(Tail(items))

\* zodResolver(invoiceFormSchema): the values are coerced and validated; data is
\* what onSubmit receives when they are valid.
zodResolver(values) ==
    Only({IF \A i \in 1..Len(coerced) : IsNumbers(coerced[i])
          THEN Only({[valid |-> invoiceFormSchema(data), data |-> data]
                     : data \in {[clientId |-> values.clientId,
                                  date     |-> values.date,
                                  dueDate  |-> values.dueDate,
                                  status   |-> values.status,
                                  currency |-> values.currency,
                                  items    |-> NumbersOfAll(coerced)]}})
          ELSE [valid |-> FALSE, data |-> values]
          : coerced \in {CoerceItems(values.items)}})

\* form.handleSubmit(onSubmit) of a form without an invoice: createInvoiceMutation
\* runs on the validated data.
submitForCreate(values) ==
    Only({IF r.valid
          THEN Computed(createCalculatedItems(r.data.items),
                        createInvoicePayload(r.data, Undefined))
          ELSE NotComputed("rejected")
          : r \in {zodResolver(values)}})

\* form.handleSubmit(onSubmit) of a form with an invoice: updateInvoiceMutation.
submitForUpdate(values) ==
    Only({IF r.valid
          THEN Computed(updateCalculatedItems(r.data.items), updateInvoicePayload(r.data))
          ELSE NotComputed("rejected")
          : r \in {zodResolver(values)}})

\* handlePreview: one element of calculatedItems, from the values as the form
\* holds them (form.getValues(), not validated).
previewCalculatedItem(item) ==
    Only({Only({Only({[description  |-> item.description,
                       quantity     |-> ValueToString(item.quantity),
                       rate         |-> ValueToString(item.rate),
                       taxRate      |-> ValueToString(item.taxRate),
                       discountRate |-> ValueToString(item.discountRate),
                       amount       |-> jtoString(jadd(subtotalAfterDiscount, tax))]
                      : tax \in {jdiv(jmul(subtotalAfterDiscount, ToNumber(item.taxRate)),
                                      Finite(Hundred))}})
                : subtotalAfterDiscount \in
                      {jsub(lineSubtotal,
                            jdiv(jmul(lineSubtotal, ToNumber(item.discountRate)),
                                 Finite(Hundred)))}})
          : lineSubtotal \in {jmul(ToNumber(item.quantity), ToNumber(item.rate))}})

RECURSIVE previewCalculatedItems(_)
previewCalculatedItems(items) ==
    IF items = <<>> THEN <<>>
    ELSE <<previewCalculatedItem(Head(items))>> \o previewCalculatedItems(Tail(items))

\* handlePreview: subtotal
RECURSIVE previewSubtotal(_, _)
previewSubtotal(calc, n) ==
    IF n = 0 THEN Finite(Zero)
    ELSE LET item         == calc[n]
             lineSubtotal == jmul(parseFloat(item.quantity), parseFloat(item.rate))
         IN  jadd(previewSubtotal(calc, n - 1), lineSubtotal)

\* handlePreview: totalDiscount
RECURSIVE previewTotalDiscount(_, _)
previewTotalDiscount(calc, n) ==
    IF n = 0 THEN Finite(Zero)
    ELSE LET item         == calc[n]
             lineSubtotal == jmul(parseFloat(item.quantity), parseFloat(item.rate))
             discount     == jdiv(jmul(lineSubtotal, parseFloat(item.discountRate)),
                                  Finite(Hundred))
         IN  jadd(previewTotalDiscount(calc, n - 1), discount)

\* handlePreview: totalTax
RECURSIVE previewTotalTax(_, _)
previewTotalTax(calc, n) ==
    IF n = 0 THEN Finite(Zero)
    ELSE LET item                  == calc[n]
             lineSubtotal          == jmul(parseFloat(item.quantity), parseFloat(item.rate))
             discount              == jdiv(jmul(lineSubtotal, parseFloat(item.discountRate)),
                                           Finite(Hundred))
             subtotalAfterDiscount == jsub(lineSubtotal, discount)
             tax                   == jdiv(jmul(subtotalAfterDiscount, parseFloat(item.taxRate)),
                                           Finite(Hundred))
         IN  jadd(previewTotalTax(calc, n - 1), tax)

\* handlePreview: total
previewTotal(subtotal, totalDiscount, totalTax) == jadd(jsub(subtotal, totalDiscount), totalTax)

\* A field of the line is undefined: its toString() throws a TypeError.
HasUndefined(item) ==
    \/ item.quantity.t = "undefined"
    \/ item.rate.t = "undefined"
    \/ item.taxRate.t = "undefined"
    \/ item.discountRate.t = "undefined"

\* handlePreview: without a client of the form's clientId a toast is shown and
\* nothing is computed; otherwise previewData is computed from form.getValues().
handlePreview(values, clientIds) ==
    IF values.clientId \notin clientIds THEN NotComputed("rejected")
    ELSE IF \E i \in 1..Len(values.items) : HasUndefined(values.items[i])
    THEN NotComputed("threw")
    ELSE Only({Only({Computed(calc,
                              [subtotal       |-> jtoString(subtotal),
                               taxAmount      |-> jtoString(totalTax),
                               discountAmount |-> jtoString(totalDiscount),
                               total          |-> jtoString(previewTotal(subtotal, totalDiscount,
                                                                         totalTax))])
                     : subtotal      \in {previewSubtotal(calc, Len(calc))},
                       totalDiscount \in {previewTotalDiscount(calc, Len(calc))},
                       totalTax      \in {previewTotalTax(calc, Len(calc))}})
               : calc \in {previewCalculatedItems(values.items)}})

\* The totals the form shows while it is edited: watchedItems.reduce over the
\* first n lines.
RECURSIVE totals(_, _)
totals(watchedItems, n) ==
    IF n = 0 THEN [subtotal |-> Finite(Zero), discount |-> Finite(Zero), tax |-> Finite(Zero)]
    ELSE Only({Only({Only({[subtotal |-> jadd(acc.subtotal, lineSubtotal),
                            discount |-> jadd(acc.discount, discount),
                            tax      |-> jadd(acc.tax,
                                              jdiv(jmul(jsub(lineSubtotal, discount),
                                                        ToNumber(OrZero(item.taxRate))),
                                                   Finite(Hundred)))]
                           : discount \in {jdiv(jmul(lineSubtotal,
                                                     ToNumber(OrZero(item.discountRate))),
                                                Finite(Hundred))}})
                     : lineSubtotal \in {jmul(ToNumber(OrZero(item.quantity)),
                                              ToNumber(OrZero(item.rate)))}})
               : acc \in {totals(watchedItems, n - 1)}, item \in {watchedItems[n]}})

\* grandTotal
grandTotal(t) == jadd(jsub(t.subtotal, t.discount), t.tax)

-----------------------------------------------------------------------------
(* Storage: invoices and their items *)

Ids(invs) == {invs[i].id : i \in 1..Len(invs)}

RowOf(invs, id) == invs[CHOOSE i \in 1..Len(invs) : invs[i].id = id]

\* A variant of insertInvoice that allocates at the insert when the number of the
\* payload is taken.
insertInvoiceUnlessTaken(invs, id, payload) ==
    Append(invs, [id             |-> id,
                  invoiceNumber  |->
                      IF \E k \in 1..Len(invs) : invs[k].invoiceNumber = payload.invoiceNumber
                      THEN NextOfLast(DefaultPrefix, invs[Len(invs)].invoiceNumber)
                      ELSE payload.invoiceNumber,
                  clientId       |-> payload.clientId,
                  status         |-> payload.status,
                  currency       |-> payload.currency,
                  date           |-> payload.date,
                  dueDate        |-> payload.dueDate,
                  subtotal       |-> payload.subtotal,
                  taxAmount      |-> payload.taxAmount,
                  discountAmount |-> payload.discountAmount,
                  total          |-> payload.total])

\* db.insert(invoices).values(insertInvoice).returning(): the row gets a fresh id
\* and the latest createdAt.
insertInvoice(invs, id, payload) ==
    Append(invs, [id             |-> id,
                  invoiceNumber  |-> payload.invoiceNumber,
                  clientId       |-> payload.clientId,
                  status         |-> payload.status,
                  currency       |-> payload.currency,
                  date           |-> payload.date,
                  dueDate        |-> payload.dueDate,
                  subtotal       |-> payload.subtotal,
                  taxAmount      |-> payload.taxAmount,
                  discountAmount |-> payload.discountAmount,
                  total          |-> payload.total])

\* db.insert(invoiceItems).values(items.map(item => ({...item, invoiceId})))
insertInvoiceItems(rows, id, items) ==
    rows \cup {[invoiceId    |-> id,
                line         |-> i,
                description  |-> items[i].description,
                quantity     |-> items[i].quantity,
                rate         |-> items[i].rate,
                taxRate      |-> items[i].taxRate,
                discountRate |-> items[i].discountRate,
                amount       |-> items[i].amount] : i \in 1..Len(items)}

\* db.update(invoices).set(updateInvoice).where(eq(invoices.id, id)): the fields
\* the payload names are overwritten, the others kept.
updateInvoiceRow(invs, id, payload) ==
    [i \in 1..Len(invs) |->
        IF invs[i].id = id
        THEN [f \in DOMAIN invs[i] |-> IF f \in DOMAIN payload THEN payload[f] ELSE invs[i][f]]
        ELSE invs[i]]

\* A variant of deleteInvoiceItems that removes no row.
deleteInvoiceItemsNone(rows, id) == rows

\* db.delete(invoiceItems).where(eq(invoiceItems.invoiceId, id))
deleteInvoiceItems(rows, id) == {r \in rows : r.invoiceId # id}

RECURSIVE Without(_, _)
Without(invs, id) ==
    IF invs = <<>> THEN <<>>
    ELSE IF Head(invs).id = id THEN Without(Tail(invs), id)
    ELSE <<Head(invs)>> \o Without(Tail(invs), id)

\* DatabaseStorage.deleteInvoice: db.delete(invoices).where(eq(invoices.id, id))
deleteInvoice(invs, id) == Without(invs, id)

\* The item rows that remain when an invoice row is deleted: the rows that refer
\* to the invoice go with it.
ItemsAfterInvoiceDelete(rows, id) == {r \in rows : r.invoiceId # id}

-----------------------------------------------------------------------------
(* Inputs *)

Browsers == {"b1", "b2"}

PrefixX == <<"X", "-">>

PrefixChoices == {PrefixX}

Line(q, r, t, d) ==
    [description |-> "Work", quantity |-> q, rate |-> r, taxRate |-> t, discountRate |-> d]

\* 2 x 100, tax 18 %, no discount
LineA == Line(FromInt(2), FromInt(100), FromInt(18), Zero)

\* 1 x 1000, no tax, discount 10 %
LineB == Line(FromInt(1), FromInt(1000), Zero, FromInt(10))

\* 3 x 0.1, tax 5 %, discount 33 %
LineC == Line(FromInt(3), FromDecimal(1, 1), FromInt(5), FromInt(33))

\* 1.5 x 19.99, tax 12.5 %, discount 100 %
LineD == Line(FromDecimal(15, 1), FromDecimal(1999, 2), FromDecimal(125, 1), Hundred)

\* The data of a submitted form; the optional notes are left out.
FormData(status, items) ==
    [clientId |-> "c1", date |-> "2025-01-15", dueDate |-> "2025-02-14",
     status |-> status, currency |-> "INR", items |-> items]

\* What the browsers submit in the specification of the whole system.
FormInputs == {FormData("draft", <<LineA>>), FormData("sent", <<LineB, LineC>>)}

\* What the one browser submits in the specification of the form.
ItemLists ==
    {<<LineA>>, <<LineB>>, <<LineC, LineD>>, <<LineD, LineC>>, <<LineA, LineB, LineC>>}

WideFormInputs == {FormData("paid", items) : items \in ItemLists}

\* The lines the calculator is applied to; the ones with quantity 0 are not valid.
CalcLines ==
    {Line(q, r, t, d) :
        q \in {Zero, FromInt(1), FromInt(2), FromInt(3), FromDecimal(15, 1), FromDecimal(1, 2)},
        r \in {Zero, FromInt(100), FromInt(1000), FromDecimal(1, 1), FromDecimal(1999, 2)},
        t \in {Zero, FromInt(5), FromInt(18), FromDecimal(125, 1), Hundred},
        d \in {Zero, FromInt(10), FromInt(33), Hundred}}

AllFormInputs == FormInputs \cup WideFormInputs

\* What the two mutation functions compute from a form's data depends on the data
\* alone: it is tabulated once for the inputs above.
CreateRequestOf ==
    [data \in AllFormInputs |->
        [valid   |-> invoiceFormSchema(data),
         payload |-> createInvoicePayload(data, Undefined),
         items   |-> createCalculatedItems(data.items)]]

UpdateRequestOf ==
    [data \in AllFormInputs |->
        [valid   |-> invoiceFormSchema(data),
         payload |-> updateInvoicePayload(data),
         items   |-> updateCalculatedItems(data.items)]]

-----------------------------------------------------------------------------
(* The state after start-up: empty tables, no form mounted, nothing cached *)

\* The clients the store holds from the start: the one the forms select.
StoredClients == {[id |-> "c1"]}

NoForm == [mode |-> "closed", invoice |-> 0]

NoRequest == [id |-> 0, items |-> <<>>]

NotRead == [read |-> FALSE, rows |-> <<>>, prefix |-> Undefined]

\* What a call of getNextInvoiceNumber can see of the store: the invoice rows by
\* id and number, and the stored prefix.
StoreRead(invs, sets) ==
    [read   |-> TRUE,
     rows   |-> [k \in 1..Len(invs) |-> <<invs[k].id, invs[k].invoiceNumber>>],
     prefix |-> getSetting(sets, "invoice_prefix")]

InitWith(sets) ==
    /\ clients = StoredClients
    /\ settings = sets
    /\ invoices = <<>>
    /\ invoiceItems = {}
    /\ nextId = 1
    /\ form = [b \in Browsers |-> NoForm]
    /\ nextInvoiceNumber = [b \in Browsers |-> Undefined]
    /\ pc = [b \in Browsers |-> "idle"]
    /\ req = [b \in Browsers |-> NoRequest]
    /\ seen = [b \in Browsers |-> NotRead]
    /\ origin = <<>>
    /\ issued = <<>>
    /\ arg = Undefined
    /\ ret = Undefined

Init == InitWith(<<>>)

-----------------------------------------------------------------------------
(* The browser: the invoice form *)

\* Invoices page: "New Invoice" mounts the form without an invoice.
OpenNewForm(b) ==
    /\ form[b].mode = "closed"
    /\ pc[b] = "idle"
    /\ form' = [form EXCEPT ![b] = [mode |-> "new", invoice |-> 0]]
    /\ UNCHANGED <<clients, settings, invoices, invoiceItems, nextId, nextInvoiceNumber,
                   pc, req, seen, origin, issued, arg, ret>>

\* The query /api/invoices/next/number (enabled: !invoice) resolves with what
\* getNextInvoiceNumber returns now; its data stays in the query cache.
FetchNextNumber(b) ==
    /\ form[b].mode = "new"
    /\ pc[b] = "idle"
    /\ nextInvoiceNumber' =
           [nextInvoiceNumber EXCEPT ![b] = Some(getNextInvoiceNumber(invoices, settings))]
    /\ seen' = [seen EXCEPT ![b] = StoreRead(invoices, settings)]
    /\ UNCHANGED <<clients, settings, invoices, invoiceItems, nextId, form, pc, req,
                   origin, issued, arg, ret>>

\* onSubmit without an invoice: createInvoiceMutation, POST /api/invoices, and the
\* first write of DatabaseStorage.createInvoice, the invoice row.
SubmitCreate(b, data) ==
    /\ form[b].mode = "new"
    /\ pc[b] = "idle"
    /\ CreateRequestOf[data].valid
    /\ nextId <= MaxInvoices
    /\ LET payload == [CreateRequestOf[data].payload EXCEPT
                          !.invoiceNumber = NumberOrFallback(nextInvoiceNumber[b])]
       IN  /\ invoices' = insertInvoice(invoices, nextId, payload)
           /\ issued' = Append(issued, payload.invoiceNumber)
    /\ origin' = origin @@ (nextId :> seen[b])
    /\ req' = [req EXCEPT ![b] = [id |-> nextId, items |-> CreateRequestOf[data].items]]
    /\ pc' = [pc EXCEPT ![b] = "createItems"]
    /\ nextId' = nextId + 1
    /\ UNCHANGED <<clients, settings, invoiceItems, form, nextInvoiceNumber, seen, arg, ret>>

\* The second write of DatabaseStorage.createInvoice, the item rows, then the
\* response: onSuccess closes the form. The insert fails when the invoice row is
\* gone, and onError leaves the form open.
CreateInvoiceItems(b) ==
    /\ pc[b] = "createItems"
    /\ IF req[b].id \in Ids(invoices)
       THEN /\ invoiceItems' = insertInvoiceItems(invoiceItems, req[b].id, req[b].items)
            /\ form' = [form EXCEPT ![b] = NoForm]
       ELSE UNCHANGED <<invoiceItems, form>>
    /\ pc' = [pc EXCEPT ![b] = "idle"]
    /\ req' = [req EXCEPT ![b] = NoRequest]
    /\ UNCHANGED <<clients, settings, invoices, nextId, nextInvoiceNumber, seen, origin,
                   issued, arg, ret>>

\* Invoices page: handleEditInvoice mounts the form with a listed invoice.
OpenEditForm(b, id) ==
    /\ form[b].mode = "closed"
    /\ pc[b] = "idle"
    /\ id \in Ids(invoices)
    /\ form' = [form EXCEPT ![b] = [mode |-> "edit", invoice |-> id]]
    /\ UNCHANGED <<clients, settings, invoices, invoiceItems, nextId, nextInvoiceNumber,
                   pc, req, seen, origin, issued, arg, ret>>

\* onSubmit with an invoice: updateInvoiceMutation, PUT /api/invoices/:id, and the
\* first write of DatabaseStorage.updateInvoice. Without a row of that id the call
\* returns undefined and nothing is written.
SubmitUpdate(b, data) ==
    /\ form[b].mode = "edit"
    /\ pc[b] = "idle"
    /\ UpdateRequestOf[data].valid
    /\ IF form[b].invoice \in Ids(invoices)
       THEN /\ invoices' = updateInvoiceRow(invoices, form[b].invoice, UpdateRequestOf[data].payload)
            /\ req' = [req EXCEPT ![b] = [id    |-> form[b].invoice,
                                          items |-> UpdateRequestOf[data].items]]
            /\ pc' = [pc EXCEPT ![b] = "updateDelete"]
       ELSE UNCHANGED <<invoices, req, pc>>
    /\ UNCHANGED <<clients, settings, invoiceItems, nextId, form, nextInvoiceNumber, seen,
                   origin, issued, arg, ret>>

\* DatabaseStorage.updateInvoice: delete existing items.
UpdateDeleteItems(b) ==
    /\ pc[b] = "updateDelete"
    /\ invoiceItems' = deleteInvoiceItems(invoiceItems, req[b].id)
    /\ pc' = [pc EXCEPT ![b] = "updateInsert"]
    /\ UNCHANGED <<clients, settings, invoices, nextId, form, nextInvoiceNumber, req, seen,
                   origin, issued, arg, ret>>

\* DatabaseStorage.updateInvoice: insert new items, then the response: onSuccess
\* closes the form.
UpdateInsertItems(b) ==
    /\ pc[b] = "updateInsert"
    /\ IF req[b].id \in Ids(invoices)
       THEN /\ invoiceItems' = insertInvoiceItems(invoiceItems, req[b].id, req[b].items)
            /\ form' = [form EXCEPT ![b] = NoForm]
       ELSE UNCHANGED <<invoiceItems, form>>
    /\ pc' = [pc EXCEPT ![b] = "idle"]
    /\ req' = [req EXCEPT ![b] = NoRequest]
    /\ UNCHANGED <<clients, settings, invoices, nextId, nextInvoiceNumber, seen, origin,
                   issued, arg, ret>>

\* The form's Back button: onClose.
CloseForm(b) ==
    /\ form[b].mode # "closed"
    /\ pc[b] = "idle"
    /\ form' = [form EXCEPT ![b] = NoForm]
    /\ UNCHANGED <<clients, settings, invoices, invoiceItems, nextId, nextInvoiceNumber,
                   pc, req, seen, origin, issued, arg, ret>>

\* Invoices page: deleteInvoiceMutation, DELETE /api/invoices/:id.
DeleteInvoice(id) ==
    /\ id \in Ids(invoices)
    /\ invoices' = deleteInvoice(invoices, id)
    /\ invoiceItems' = ItemsAfterInvoiceDelete(invoiceItems, id)
    /\ UNCHANGED <<clients, settings, nextId, form, nextInvoiceNumber, pc, req, seen,
                   origin, issued, arg, ret>>

-----------------------------------------------------------------------------
(* The browser: the settings page *)

\* saveSettingsMutation: POST /api/settings with one {key, value}, stored by
\* DatabaseStorage.setSetting.
PostSetting(table, key, value) == setSetting(table, key, value)

\* handleGeneralSettingsSubmit: the four general settings are saved, the prefix
\* under the key "invoicePrefix".
SaveGeneralSettings(invoicePrefix) ==
    /\ settings' =
           PostSetting(
               PostSetting(
                   PostSetting(
                       PostSetting(settings, "defaultCurrency", <<"I", "N", "R">>),
                       "invoicePrefix", invoicePrefix),
                   "nextInvoiceNumber", <<"1">>),
               "defaultDueDays", <<"3", "0">>)
    /\ settings' # settings
    /\ UNCHANGED <<clients, invoices, invoiceItems, nextId, form, nextInvoiceNumber, pc, req,
                   seen, origin, issued, arg, ret>>

-----------------------------------------------------------------------------
(* The whole system: two browsers and the server *)

Next ==
    \/ \E b \in Browsers : OpenNewForm(b)
    \/ \E b \in Browsers : FetchNextNumber(b)
    \/ \E b \in Browsers, data \in FormInputs : SubmitCreate(b, data)
    \/ \E b \in Browsers : CreateInvoiceItems(b)
    \/ \E b \in Browsers, id \in 1..MaxInvoices : OpenEditForm(b, id)
    \/ \E b \in Browsers, data \in FormInputs : SubmitUpdate(b, data)
    \/ \E b \in Browsers : UpdateDeleteItems(b)
    \/ \E b \in Browsers : UpdateInsertItems(b)
    \/ \E b \in Browsers : CloseForm(b)
    \/ \E id \in 1..MaxInvoices : DeleteInvoice(id)
    \/ \E p \in PrefixChoices : SaveGeneralSettings(p)

Spec == Init /\ [][Next]_vars

-----------------------------------------------------------------------------
(* The allocator alone: one call of getNextInvoiceNumber on a store *)

\* The settings tables the call is made on: no prefix row, the prefix "X-", and
\* an empty prefix.
AllocSettings ==
    {<<>>,
     setSetting(<<>>, "invoice_prefix", PrefixX),
     setSetting(<<>>, "invoice_prefix", <<>>)}

\* An invoice table whose most recent row carries the number.
StoredWith(number) ==
    insertInvoice(<<>>, 1,
        [CreateRequestOf[FormData("draft", <<LineA>>)].payload EXCEPT !.invoiceNumber = number])

\* The item rows of that invoice.
StoredItems(invs) ==
    IF invs = <<>> THEN {}
    ELSE insertInvoiceItems({}, 1, CreateRequestOf[FormData("draft", <<LineA>>)].items)

\* The store before the call: no invoice, or a last invoice numbered with either
\* prefix and a suffix up to MaxSuffix. arg keeps the suffix.
InitAlloc ==
    /\ clients = StoredClients
    /\ settings \in AllocSettings
    /\ \/ /\ invoices = <<>>
          /\ arg = Undefined
       \/ \E p \in {DefaultPrefix, PrefixX}, n \in 1..MaxSuffix :
             /\ invoices = StoredWith(p \o padStart(NatToString(n), 4))
             /\ arg = Some(n)
    /\ invoiceItems = StoredItems(invoices)
    /\ nextId = 2
    /\ form = [b \in Browsers |-> NoForm]
    /\ nextInvoiceNumber = [b \in Browsers |-> Undefined]
    /\ pc = [b \in Browsers |-> "idle"]
    /\ req = [b \in Browsers |-> NoRequest]
    /\ seen = [b \in Browsers |-> NotRead]
    /\ origin = <<>>
    /\ issued = <<>>
    /\ ret = Undefined

\* GET /api/invoices/next/number
Allocate ==
    /\ ~ret.defined
    /\ ret' = Some(getNextInvoiceNumber(invoices, settings))
    /\ UNCHANGED <<clients, settings, invoices, invoiceItems, nextId, form, nextInvoiceNumber,
                   pc, req, seen, origin, issued, arg>>

NextAlloc == Allocate

SpecAlloc == InitAlloc /\ [][NextAlloc]_vars

-----------------------------------------------------------------------------
(* The server alone: requests served one after the other *)

\* The store at the start: with or without a stored prefix, empty or holding one
\* invoice numbered 9998.
InitSeq ==
    /\ clients = StoredClients
    /\ settings \in {<<>>, setSetting(<<>>, "invoice_prefix", PrefixX)}
    /\ \/ invoices = <<>> /\ nextId = 1
       \/ /\ invoices = StoredWith(OrElse(getSetting(settings, "invoice_prefix"), DefaultPrefix)
                                       \o <<"9", "9", "9", "8">>)
          /\ nextId = 2
    /\ invoiceItems = StoredItems(invoices)
    /\ issued = [k \in 1..Len(invoices) |-> invoices[k].invoiceNumber]
    /\ form = [b \in Browsers |-> NoForm]
    /\ nextInvoiceNumber = [b \in Browsers |-> Undefined]
    /\ pc = [b \in Browsers |-> "idle"]
    /\ req = [b \in Browsers |-> NoRequest]
    /\ seen = [b \in Browsers |-> NotRead]
    /\ origin = <<>>
    /\ arg = Undefined
    /\ ret = Undefined

\* GET /api/invoices/next/number, then POST /api/invoices with the number it
\* returned: DatabaseStorage.createInvoice, both writes.
SeqCreate(data) ==
    /\ CreateRequestOf[data].valid
    /\ nextId <= MaxSeqInvoices
    /\ LET number  == getNextInvoiceNumber(invoices, settings)
           payload == [CreateRequestOf[data].payload EXCEPT !.invoiceNumber = number]
       IN  /\ invoices' = insertInvoice(invoices, nextId, payload)
           /\ issued' = Append(issued, number)
    /\ invoiceItems' = insertInvoiceItems(invoiceItems, nextId, CreateRequestOf[data].items)
    /\ nextId' = nextId + 1
    /\ UNCHANGED <<clients, settings, form, nextInvoiceNumber, pc, req, seen, origin, arg, ret>>

\* PUT /api/invoices/:id with the payload of updateInvoiceMutation:
\* DatabaseStorage.updateInvoice, the row and the items.
SeqUpdate(id, data) ==
    /\ UpdateRequestOf[data].valid
    /\ id \in Ids(invoices)
    /\ invoices' = updateInvoiceRow(invoices, id, UpdateRequestOf[data].payload)
    /\ invoiceItems' = insertInvoiceItems(deleteInvoiceItems(invoiceItems, id), id,
                                          UpdateRequestOf[data].items)
    /\ <<invoices', invoiceItems'>> # <<invoices, invoiceItems>>
    /\ UNCHANGED <<clients, settings, nextId, form, nextInvoiceNumber, pc, req, seen, origin,
                   issued, arg, ret>>

\* DELETE /api/invoices/:id
SeqDelete(id) ==
    /\ id \in Ids(invoices)
    /\ invoices' = deleteInvoice(invoices, id)
    /\ invoiceItems' = ItemsAfterInvoiceDelete(invoiceItems, id)
    /\ UNCHANGED <<clients, settings, nextId, form, nextInvoiceNumber, pc, req, seen, origin,
                   issued, arg, ret>>

NextSeq ==
    \/ \E data \in FormInputs : SeqCreate(data)
    \/ \E id \in 1..MaxSeqInvoices, data \in FormInputs : SeqUpdate(id, data)
    \/ \E id \in 1..MaxSeqInvoices : SeqDelete(id)

SpecSeq == InitSeq /\ [][NextSeq]_vars

-----------------------------------------------------------------------------
(* The form alone: one browser that creates and edits invoices *)

NextForm ==
    \/ OpenNewForm("b1")
    \/ \E data \in WideFormInputs : SubmitCreate("b1", data)
    \/ CreateInvoiceItems("b1")
    \/ \E id \in 1..MaxInvoices : OpenEditForm("b1", id)
    \/ \E data \in WideFormInputs : SubmitUpdate("b1", data)
    \/ UpdateDeleteItems("b1")
    \/ UpdateInsertItems("b1")
    \/ CloseForm("b1")

SpecForm == Init /\ [][NextForm]_vars

-----------------------------------------------------------------------------
(* The line calculator alone: calculatedItems on one line *)

InitCalc ==
    /\ arg \in {Some(item) : item \in CalcLines}
    /\ ret = Undefined
    /\ clients = StoredClients
    /\ settings = <<>>
    /\ invoices = <<>>
    /\ invoiceItems = {}
    /\ nextId = 1
    /\ form = [b \in Browsers |-> NoForm]
    /\ nextInvoiceNumber = [b \in Browsers |-> Undefined]
    /\ pc = [b \in Browsers |-> "idle"]
    /\ req = [b \in Browsers |-> NoRequest]
    /\ seen = [b \in Browsers |-> NotRead]
    /\ origin = <<>>
    /\ issued = <<>>

\* data.items.map(item => ...) on a list of the one line
Calculate ==
    /\ ~ret.defined
    /\ ret' = Some(createCalculatedItems(<<arg.value>>)[1])
    /\ UNCHANGED <<clients, settings, invoices, invoiceItems, nextId, form, nextInvoiceNumber,
                   pc, req, seen, origin, issued, arg>>

NextCalc == Calculate

SpecCalc == InitCalc /\ [][NextCalc]_vars

-----------------------------------------------------------------------------
(* The paths of the form alone: each path once on the values of one form *)

RawLine(description, q, r, t, d) ==
    [description |-> description, quantity |-> q, rate |-> r, taxRate |-> t, discountRate |-> d]

Typed(q, r, t, d) == RawLine("Work", JString(q), JString(r), JNumber(Finite(t)), JNumber(Finite(d)))

\* A line of a stored invoice, as defaultValues.items loads it: four numbers.
Loaded(item) ==
    RawLine(item.description, JNumber(Finite(item.quantity)), JNumber(Finite(item.rate)),
            JNumber(Finite(item.taxRate)), JNumber(Finite(item.discountRate)))

\* The line handleAddItem appends, untouched.
NewLine == RawLine("", JUndefined, JUndefined, JNumber(Finite(FromInt(18))), JNumber(Finite(Zero)))

\* Lists of lines that pass the schema.
ValidRawLists ==
    {<<Typed(<<"2">>, <<"1", "0", "0">>, FromInt(18), Zero)>>,
     <<Typed(<<"1">>, <<"1", "0", "0", "0">>, Zero, FromInt(10))>>,
     <<Typed(<<"3">>, <<"0", ".", "1">>, FromInt(5), FromInt(33)),
       Typed(<<"1", ".", "5", "0">>, <<"1", "9", ".", "9", "9">>, FromDecimal(125, 1), Hundred)>>,
     <<Loaded(LineD), Loaded(LineC)>>,
     <<Loaded(LineA), Typed(<<"1">>, <<"1", "0", "0", "0">>, Zero, FromInt(10)), Loaded(LineC)>>,
     <<Typed(<<"0", ".", "0", "1">>, <<"0">>, Hundred, Hundred)>>,
     \* the rate typed and cleared again: Number("") is 0
     <<Typed(<<"2">>, <<>>, FromInt(18), Zero)>>}

\* Lists with a line that does not pass the schema.
InvalidRawLists ==
    {<<Typed(<<"0">>, <<"1", "0", "0">>, FromInt(18), Zero)>>,
     <<Typed(<<"-", "1">>, <<"1", "0", "0">>, FromInt(18), Zero)>>,
     <<Typed(<<>>, <<"1", "0", "0">>, FromInt(18), Zero)>>,
     <<Typed(<<"0", ".", "0", "0", "5">>, <<"1", "0", "0">>, FromInt(18), Zero)>>,
     <<Typed(<<"2">>, <<"-", "5">>, FromInt(18), Zero)>>,
     <<Loaded(LineA), Typed(<<"2">>, <<"1", "0", "0">>, FromInt(150), Zero)>>,
     <<Typed(<<"2">>, <<"1", "0", "0">>, Zero, Neg(FromInt(1)))>>,
     <<Loaded(LineB), NewLine>>}

FormValues(clientId, items) ==
    [clientId |-> clientId, date |-> "2025-01-15", dueDate |-> "2025-02-14",
     status |-> "draft", currency |-> "INR", items |-> items]

\* The ids of the clients the query /api/clients has loaded.
KnownClients == {"c1"}

RawForms ==
    {FormValues("c1", items) : items \in ValidRawLists \cup InvalidRawLists}
        \cup {FormValues("", items) : items \in ValidRawLists}

NoPathTaken ==
    [create |-> Undefined, update |-> Undefined, preview |-> Undefined, live |-> Undefined]

\* No table, form or request: the state around a function under study.
NothingElse ==
    /\ clients = StoredClients
    /\ settings = <<>>
    /\ invoices = <<>>
    /\ invoiceItems = {}
    /\ nextId = 1
    /\ form = [b \in Browsers |-> NoForm]
    /\ nextInvoiceNumber = [b \in Browsers |-> Undefined]
    /\ pc = [b \in Browsers |-> "idle"]
    /\ req = [b \in Browsers |-> NoRequest]
    /\ seen = [b \in Browsers |-> NotRead]
    /\ origin = <<>>
    /\ issued = <<>>

InitPaths ==
    /\ arg \in {Some(values) : values \in RawForms}
    /\ ret = NoPathTaken
    /\ NothingElse

PathCreate ==
    /\ ~ret.create.defined
    /\ ret' = [ret EXCEPT !.create = Some(submitForCreate(arg.value))]
    /\ UNCHANGED <<clients, settings, invoices, invoiceItems, nextId, form, nextInvoiceNumber,
                   pc, req, seen, origin, issued, arg>>

PathUpdate ==
    /\ ~ret.update.defined
    /\ ret' = [ret EXCEPT !.update = Some(submitForUpdate(arg.value))]
    /\ UNCHANGED <<clients, settings, invoices, invoiceItems, nextId, form, nextInvoiceNumber,
                   pc, req, seen, origin, issued, arg>>

PathPreview ==
    /\ ~ret.preview.defined
    /\ ret' = [ret EXCEPT !.preview = Some(handlePreview(arg.value, KnownClients))]
    /\ UNCHANGED <<clients, settings, invoices, invoiceItems, nextId, form, nextInvoiceNumber,
                   pc, req, seen, origin, issued, arg>>

\* The render of the form: totals and grandTotal of the watched items.
PathLive ==
    /\ ~ret.live.defined
    /\ ret' = [ret EXCEPT !.live =
                   Some(Only({[subtotal |-> t.subtotal, discount |-> t.discount,
                               tax |-> t.tax, grandTotal |-> grandTotal(t)]
                              : t \in {totals(arg.value.items, Len(arg.value.items))}}))]
    /\ UNCHANGED <<clients, settings, invoices, invoiceItems, nextId, form, nextInvoiceNumber,
                   pc, req, seen, origin, issued, arg>>

NextPaths == PathCreate \/ PathUpdate \/ PathPreview \/ PathLive

SpecPaths == InitPaths /\ [][NextPaths]_vars

-----------------------------------------------------------------------------
(* Editing a stored invoice: the form loads it, and saves it as loaded *)

\* The sequences that list the elements of a set, each once.
RECURSIVE Orderings(_)
Orderings(S) ==
    IF S = {} THEN {<<>>}
    ELSE UNION {{<<x>> \o t : t \in Orderings(S \ {x})} : x \in S}

\* DatabaseStorage.getInvoiceItems: the rows of the invoice. The select has no
\* ORDER BY, so the rows come in an order the database chooses.
getInvoiceItems(rows, id) == Orderings({r \in rows : r.invoiceId = id})

\* defaultValues of the form of a stored invoice with its items.
RECURSIVE defaultItems(_)
defaultItems(items) ==
    IF items = <<>> THEN <<>>
    ELSE <<RawLine(Head(items).description,
                   JNumber(parseFloat(Head(items).quantity)),
                   JNumber(parseFloat(Head(items).rate)),
                   JNumber(parseFloat(Head(items).taxRate)),
                   JNumber(parseFloat(Head(items).discountRate)))>>
         \o defaultItems(Tail(items))

defaultValues(invoice, items) ==
    [clientId |-> invoice.clientId, date |-> invoice.date, dueDate |-> invoice.dueDate,
     status |-> invoice.status, currency |-> invoice.currency, items |-> defaultItems(items)]

\* 1 x 0.1, 1 x 0.3 and 1 x 0.5, no tax, no discount
LineE == Line(FromInt(1), FromDecimal(1, 1), Zero, Zero)

LineF == Line(FromInt(1), FromDecimal(3, 1), Zero, Zero)

LineG == Line(FromInt(1), FromDecimal(5, 1), Zero, Zero)

ResaveInputs ==
    {FormData("draft", items) : items \in {<<LineA>>, <<LineC, LineD>>, <<LineE, LineF, LineG>>}}

\* POST /api/invoices served alone: the invoice row and its item rows.
ResaveCreate(data) ==
    /\ form["b1"].mode = "closed"
    /\ nextId <= MaxInvoices
    /\ invoiceFormSchema(data)
    /\ invoices' = insertInvoice(invoices, nextId, createInvoicePayload(data, Undefined))
    /\ invoiceItems' = insertInvoiceItems(invoiceItems, nextId, createCalculatedItems(data.items))
    /\ nextId' = nextId + 1
    /\ UNCHANGED <<clients, settings, form, nextInvoiceNumber, pc, req, seen, origin, issued, arg, ret>>

\* handleEditInvoice: the form mounts with the invoice as GET /api/invoices
\* listed it, items included.
ResaveOpen(id) ==
    /\ form["b1"].mode = "closed"
    /\ id \in Ids(invoices)
    /\ \E items \in getInvoiceItems(invoiceItems, id) :
           arg' = Some(defaultValues(RowOf(invoices, id), items))
    /\ form' = [form EXCEPT !["b1"] = [mode |-> "edit", invoice |-> id]]
    /\ UNCHANGED <<clients, settings, invoices, invoiceItems, nextId, nextInvoiceNumber, pc, req,
                   seen, origin, issued, ret>>

\* The form is submitted as loaded: updateInvoiceMutation, PUT /api/invoices/:id
\* and DatabaseStorage.updateInvoice served alone.
ResaveSubmit ==
    /\ form["b1"].mode = "edit"
    /\ arg.defined
    /\ LET r  == zodResolver(arg.value)
           id == form["b1"].invoice
       IN  /\ r.valid
           /\ invoices' = updateInvoiceRow(invoices, id, updateInvoicePayload(r.data))
           /\ invoiceItems' = insertInvoiceItems(deleteInvoiceItems(invoiceItems, id), id,
                                                 updateCalculatedItems(r.data.items))
    /\ form' = [form EXCEPT !["b1"] = NoForm]
    /\ arg' = Undefined
    /\ UNCHANGED <<clients, settings, nextId, nextInvoiceNumber, pc, req, seen, origin, issued, ret>>

NextResave ==
    \/ \E data \in ResaveInputs : ResaveCreate(data)
    \/ \E id \in 1..MaxInvoices : ResaveOpen(id)
    \/ ResaveSubmit

SpecResave == Init /\ [][NextResave]_vars

-----------------------------------------------------------------------------
(* Submitting the form of a new invoice: validation, then the request *)

\* formState.errors.clientId?.message, which the FormMessage of the client field
\* shows: "" when the field has no error.
clientIdError(values) == IF values.clientId = "" THEN "Please select a client" ELSE ""

SubmitForms ==
    {FormValues("c1", <<Typed(<<"2">>, <<"1", "0", "0">>, FromInt(18), Zero)>>),
     FormValues("c1", <<Loaded(LineC), Loaded(LineD)>>),
     FormValues("", <<Typed(<<"2">>, <<"1", "0", "0">>, FromInt(18), Zero)>>),
     FormValues("", <<NewLine>>),
     FormValues("c1", <<Typed(<<"0">>, <<"1", "0", "0">>, FromInt(18), Zero)>>)}

\* arg: the values of the last submit; ret: how many submits there were and the
\* error the client field shows.
InitSubmit ==
    /\ arg = Undefined
    /\ ret = Some([n |-> 0, clientId |-> ""])
    /\ NothingElse

\* form.handleSubmit(onSubmit): the resolver validates the values; onSubmit, and
\* with it createInvoiceMutation, POST /api/invoices and the first write of
\* createInvoice, runs only when they are valid. Otherwise the errors are shown.
SubmitValues(b, values) ==
    /\ form[b].mode = "new"
    /\ pc[b] = "idle"
    /\ ret.value.n < MaxSubmits
    /\ arg' = Some(values)
    /\ ret' = Some([n |-> ret.value.n + 1, clientId |-> clientIdError(values)])
    /\ LET r == zodResolver(values)
       IN  IF r.valid
           THEN /\ nextId <= MaxInvoices
                /\ LET payload == createInvoicePayload(r.data, nextInvoiceNumber[b])
                   IN  /\ invoices' = insertInvoice(invoices, nextId, payload)
                       /\ issued' = Append(issued, payload.invoiceNumber)
                /\ origin' = origin @@ (nextId :> seen[b])
                /\ req' = [req EXCEPT ![b] = [id    |-> nextId,
                                              items |-> createCalculatedItems(r.data.items)]]
                /\ pc' = [pc EXCEPT ![b] = "createItems"]
                /\ nextId' = nextId + 1
           ELSE UNCHANGED <<invoices, issued, origin, req, pc, nextId>>
    /\ UNCHANGED <<clients, settings, invoiceItems, form, nextInvoiceNumber, seen>>

NextSubmit ==
    \/ OpenNewForm("b1")
    \/ FetchNextNumber("b1")
    \/ \E values \in SubmitForms : SubmitValues("b1", values)
    \/ CreateInvoiceItems("b1")
    \/ CloseForm("b1")

SpecSubmit == InitSubmit /\ [][NextSubmit]_vars

-----------------------------------------------------------------------------
(* Storage: clients *)

ClientIds(cs) == {c.id : c \in cs}

\* A variant of deleteClient that deletes no row.
deleteClientNone(cs, id) == cs

\* DatabaseStorage.deleteClient: db.delete(clients).where(eq(clients.id, id))
deleteClient(cs, id) == {c \in cs : c.id # id}

\* DatabaseStorage.deleteClient: (result.rowCount ?? 0) > 0
deleteClientResult(cs, id) == id \in ClientIds(cs)

\* The invoice rows that remain when a client row is deleted: the invoices of the
\* client go with it.
InvoicesAfterClientDelete(invs, clientId) ==
    SelectSeq(invs, LAMBDA invoice : invoice.clientId # clientId)

\* The item rows that remain with them.
ItemsAfterClientDelete(rows, invs, clientId) ==
    {r \in rows : r.invoiceId \in Ids(InvoicesAfterClientDelete(invs, clientId))}

-----------------------------------------------------------------------------
(* Clients and their invoices: invoices are created, clients are deleted *)

TwoClients == {[id |-> "c1"], [id |-> "c2"]}

InitClients ==
    /\ clients = TwoClients
    /\ settings = <<>>
    /\ invoices = <<>>
    /\ invoiceItems = {}
    /\ nextId = 1
    /\ form = [b \in Browsers |-> NoForm]
    /\ nextInvoiceNumber = [b \in Browsers |-> Undefined]
    /\ pc = [b \in Browsers |-> "idle"]
    /\ req = [b \in Browsers |-> NoRequest]
    /\ seen = [b \in Browsers |-> NotRead]
    /\ origin = <<>>
    /\ issued = <<>>
    /\ arg = Undefined
    /\ ret = Undefined

\* An invoice is created for a client the form's select offers: POST
\* /api/invoices served alone, with the number the allocator returns.
ClientsCreateInvoice(clientId, data) ==
    /\ clientId \in ClientIds(clients)
    /\ nextId <= MaxInvoices
    /\ CreateRequestOf[data].valid
    /\ LET payload == [CreateRequestOf[data].payload EXCEPT
                          !.clientId = clientId,
                          !.invoiceNumber = getNextInvoiceNumber(invoices, settings)]
       IN  /\ invoices' = insertInvoice(invoices, nextId, payload)
           /\ issued' = Append(issued, payload.invoiceNumber)
    /\ invoiceItems' = insertInvoiceItems(invoiceItems, nextId, CreateRequestOf[data].items)
    /\ nextId' = nextId + 1
    /\ UNCHANGED <<clients, settings, form, nextInvoiceNumber, pc, req, seen, origin,
                   arg, ret>>

\* Clients page: handleDeleteClient, DELETE /api/clients/:id and
\* DatabaseStorage.deleteClient. ret keeps the id and what the call returned.
DeleteClient(id) ==
    /\ clients' = deleteClient(clients, id)
    /\ invoices' = InvoicesAfterClientDelete(invoices, id)
    /\ invoiceItems' = ItemsAfterClientDelete(invoiceItems, invoices, id)
    /\ ret' = Some([id |-> id, deleted |-> deleteClientResult(clients, id)])
    /\ UNCHANGED <<settings, nextId, form, nextInvoiceNumber, pc, req, seen, origin,
                   issued, arg>>

NextClients ==
    \/ \E id \in ClientIds(TwoClients), data \in WideFormInputs : ClientsCreateInvoice(id, data)
    \/ \E id \in ClientIds(TwoClients) : DeleteClient(id)

SpecClients == InitClients /\ [][NextClients]_vars

-----------------------------------------------------------------------------
(* Updates of one stored invoice from two browsers *)

\* The store holds one invoice, INV-0001 with the line 2 x 100, and its items.
InitUpdates ==
    /\ clients = StoredClients
    /\ settings = <<>>
    /\ invoices = StoredWith(<<"I", "N", "V", "-", "0", "0", "0", "1">>)
    /\ invoiceItems = StoredItems(invoices)
    /\ nextId = 2
    /\ form = [b \in Browsers |-> NoForm]
    /\ nextInvoiceNumber = [b \in Browsers |-> Undefined]
    /\ pc = [b \in Browsers |-> "idle"]
    /\ req = [b \in Browsers |-> NoRequest]
    /\ seen = [b \in Browsers |-> NotRead]
    /\ origin = <<>>
    /\ issued = <<<<"I", "N", "V", "-", "0", "0", "0", "1">>>>
    /\ arg = Undefined
    /\ ret = Undefined

NextUpdates ==
    \/ \E b \in Browsers : OpenEditForm(b, 1)
    \/ \E b \in Browsers, data \in AllFormInputs : SubmitUpdate(b, data)
    \/ \E b \in Browsers : UpdateDeleteItems(b)
    \/ \E b \in Browsers : UpdateInsertItems(b)

SpecUpdates == InitUpdates /\ [][NextUpdates]_vars

-----------------------------------------------------------------------------
(* Storage: setSetting, statement by statement, called by two requests *)

\* setSetting: existing.length > 0
settingExists(table, key) == \E i \in 1..Len(table) : table[i].key = key

\* setSetting: db.update(settings).set({ value }).where(eq(settings.key, key))
updateSetting(table, key, value) ==
    [i \in 1..Len(table) |->
        IF table[i].key = key THEN [table[i] EXCEPT !.value = value] ELSE table[i]]

\* A variant of insertSetting that inserts no row.
insertSettingNothing(table, key, value) == table

\* setSetting: db.insert(settings).values({ key, value })
insertSetting(table, key, value) == Append(table, [key |-> key, value |-> value])

\* The key of a setting is unique: the insert of a second row with a key fails.
KeyTaken(table, key) == \E i \in 1..Len(table) : table[i].key = key

SettingKeys == {"invoice_prefix", "defaultCurrency"}

SettingValues == {<<"X", "-">>, <<"Y", "-">>}

\* ret: the keys for which a call has ended, and the keys for which an insert
\* was refused.
InitSettings ==
    /\ arg = Undefined
    /\ ret = [done |-> {}, refused |-> {}]
    /\ NothingElse

\* POST /api/settings, setSetting: the select of the rows with the key.
SetSettingSelect(b, key, value) ==
    /\ pc[b] = "idle"
    /\ req' = [req EXCEPT ![b] = [id |-> 0, items |-> <<>>, key |-> key, value |-> value,
                                  existing |-> settingExists(settings, key)]]
    /\ pc' = [pc EXCEPT ![b] = "setSettingWrite"]
    /\ UNCHANGED <<clients, settings, invoices, invoiceItems, nextId, form,
                   nextInvoiceNumber, seen, origin, issued, arg, ret>>

\* setSetting: the update when the select found a row, the insert when not; an
\* insert that the unique key refuses ends the call with an error.
SetSettingWrite(b) ==
    /\ pc[b] = "setSettingWrite"
    /\ LET key   == req[b].key
           value == req[b].value
       IN  /\ settings' =
                  IF req[b].existing THEN updateSetting(settings, key, value)
                  ELSE IF KeyTaken(settings, key) THEN settings
                  ELSE insertSetting(settings, key, value)
           /\ ret' = [done    |-> ret.done \cup {key},
                      refused |-> IF ~req[b].existing /\ KeyTaken(settings, key)
                                  THEN ret.refused \cup {key} ELSE ret.refused]
    /\ pc' = [pc EXCEPT ![b] = "idle"]
    /\ req' = [req EXCEPT ![b] = NoRequest]
    /\ UNCHANGED <<clients, invoices, invoiceItems, nextId, form, nextInvoiceNumber,
                   seen, origin, issued, arg>>

NextSettings ==
    \/ \E b \in Browsers, key \in SettingKeys, value \in SettingValues :
           SetSettingSelect(b, key, value)
    \/ \E b \in Browsers : SetSettingWrite(b)

SpecSettings == InitSettings /\ [][NextSettings]_vars


-----------------------------------------------------------------------------
(* Storage: updateInvoice as one call, served alone *)

\* DatabaseStorage.updateInvoice(id, updateInvoice, items?) from its first
\* statement to its return; items is optional. The result is undefined when no
\* row has the id; an empty array of items passes `if (items)`, its rows are
\* deleted and there is nothing to insert.
updateInvoice(invs, rows, id, payload, items) ==
    IF id \notin Ids(invs)
    THEN [invoices |-> invs, invoiceItems |-> rows, result |-> Undefined]
    ELSE [invoices     |-> updateInvoiceRow(invs, id, payload),
          invoiceItems |-> IF items.defined
                           THEN insertInvoiceItems(deleteInvoiceItems(rows, id), id, items.value)
                           ELSE rows,
          result       |-> Some(id)]

\* The item lists a call passes: none, an empty one, or the calculated items of a
\* submitted form.
UpdateCallItems ==
    {Undefined, Some(<<>>)} \cup {Some(UpdateRequestOf[data].items) : data \in FormInputs}

\* The store before the calls: INV-0001 with the line 2 x 100 and INV-0002 with
\* two lines, as createInvoice left them.
InitUpdateCall ==
    /\ clients = StoredClients
    /\ settings = <<>>
    /\ invoices =
           insertInvoice(StoredWith(<<"I", "N", "V", "-", "0", "0", "0", "1">>), 2,
               [CreateRequestOf[FormData("sent", <<LineB, LineC>>)].payload
                    EXCEPT !.invoiceNumber = <<"I", "N", "V", "-", "0", "0", "0", "2">>])
    /\ invoiceItems =
           insertInvoiceItems(StoredItems(invoices), 2,
                              CreateRequestOf[FormData("sent", <<LineB, LineC>>)].items)
    /\ nextId = 3
    /\ form = [b \in Browsers |-> NoForm]
    /\ nextInvoiceNumber = [b \in Browsers |-> Undefined]
    /\ pc = [b \in Browsers |-> "idle"]
    /\ req = [b \in Browsers |-> NoRequest]
    /\ seen = [b \in Browsers |-> NotRead]
    /\ origin = <<>>
    /\ issued = [k \in 1..Len(invoices) |-> invoices[k].invoiceNumber]
    /\ arg = Undefined
    /\ ret = Undefined

\* One call of updateInvoice; arg keeps its id and items and the two tables as
\* they were before it, ret its result.
UpdateCall(id, payload, items) ==
    /\ LET r == Only({updateInvoice(invoices, invoiceItems, id, payload, items)})
       IN  /\ invoices' = r.invoices
           /\ invoiceItems' = r.invoiceItems
           /\ ret' = r.result
    /\ arg' = Some([id |-> id, items |-> items,
                    invoices |-> invoices, invoiceItems |-> invoiceItems])
    /\ UNCHANGED <<clients, settings, nextId, form, nextInvoiceNumber, pc, req, seen,
                   origin, issued>>

NextUpdateCall ==
    \E id \in 1..3, data \in FormInputs, items \in UpdateCallItems :
        UpdateCall(id, UpdateRequestOf[data].payload, items)

SpecUpdateCall == InitUpdateCall /\ [][NextUpdateCall]_vars

-----------------------------------------------------------------------------
(* Storage: settings, one call after the other *)

\* The keys and values of the calls; a value may be the empty string.
CallKeys == {"invoice_prefix", "defaultCurrency", "defaultDueDays"}

CallValues == {<<"X", "-">>, <<"Y", "-">>, <<>>}

\* No call yet. arg keeps, for each key, the value of the last setSetting call
\* for it, and the keys that were set when they were stored already; ret the key
\* and the result of the last getSetting call.
InitSetSeq ==
    /\ arg = [last |-> [k \in CallKeys |-> Undefined], again |-> {}]
    /\ ret = Undefined
    /\ NothingElse

\* POST /api/settings: one whole call of DatabaseStorage.setSetting.
SetSettingCall(key, value) ==
    /\ settings' = setSetting(settings, key, value)
    /\ arg' = [last  |-> [arg.last EXCEPT ![key] = Some(value)],
               again |-> IF arg.last[key].defined THEN arg.again \cup {key} ELSE arg.again]
    /\ ret' = Undefined
    /\ UNCHANGED <<clients, invoices, invoiceItems, nextId, form, nextInvoiceNumber, pc, req,
                   seen, origin, issued>>

\* One call of DatabaseStorage.getSetting.
GetSettingCall(key) ==
    /\ ret' = Some([key |-> key, result |-> getSetting(settings, key)])
    /\ UNCHANGED <<clients, settings, invoices, invoiceItems, nextId, form,
                   nextInvoiceNumber, pc, req, seen, origin, issued, arg>>

NextSetSeq ==
    \/ \E key \in CallKeys, value \in CallValues : SetSettingCall(key, value)
    \/ \E key \in CallKeys : GetSettingCall(key)

SpecSetSeq == InitSetSeq /\ [][NextSetSeq]_vars

-----------------------------------------------------------------------------
(* Storage: getDashboardStats, query by query, while invoices are written *)

\* count(*) from invoices where status = ...
CountWithStatus(invs, status) == Cardinality({k \in 1..Len(invs) : invs[k].status = status})

\* COALESCE(sum(total), 0) from invoices where status = 'paid'
RECURSIVE SumOfPaid(_, _)
SumOfPaid(invs, n) ==
    IF n = 0 THEN Zero
    ELSE IF invs[n].status = "paid"
         THEN fadd(SumOfPaid(invs, n - 1), parseFloat(invs[n].total).num)
         ELSE SumOfPaid(invs, n - 1)

\* Dashboard: overdueInvoices
overdueInvoices(stats) == stats.totalInvoices - stats.paidInvoices - stats.pendingInvoices

\* What the dashboard's invoices are created and updated with.
StatsInputs ==
    {FormData("draft", <<LineA>>), FormData("sent", <<LineB, LineC>>), FormData("paid", <<LineA>>)}

\* The call in flight: the query it is about to run and the counts it has.
StatsCall(next, total, paid, pending, nclients) ==
    [next |-> next, totalInvoices |-> total, paidInvoices |-> paid,
     pendingInvoices |-> pending, totalClients |-> nclients]

\* GET /api/dashboard/stats: getDashboardStats begins with the count of all
\* invoices.
StatsCountTotal ==
    /\ ~arg.defined
    /\ arg' = Some(StatsCall("paid", Len(invoices), 0, 0, 0))
    /\ ret' = Undefined
    /\ UNCHANGED <<clients, settings, invoices, invoiceItems, nextId, form,
                   nextInvoiceNumber, pc, req, seen, origin, issued>>

\* the count of the paid invoices
StatsCountPaid ==
    /\ arg.defined
    /\ arg.value.next = "paid"
    /\ arg' = Some([arg.value EXCEPT !.next = "pending",
                                     !.paidInvoices = CountWithStatus(invoices, "paid")])
    /\ UNCHANGED <<clients, settings, invoices, invoiceItems, nextId, form,
                   nextInvoiceNumber, pc, req, seen, origin, issued, ret>>

\* the count of the sent invoices
StatsCountPending ==
    /\ arg.defined
    /\ arg.value.next = "pending"
    /\ arg' = Some([arg.value EXCEPT !.next = "clients",
                                     !.pendingInvoices = CountWithStatus(invoices, "sent")])
    /\ UNCHANGED <<clients, settings, invoices, invoiceItems, nextId, form,
                   nextInvoiceNumber, pc, req, seen, origin, issued, ret>>

\* the count of the clients
StatsCountClients ==
    /\ arg.defined
    /\ arg.value.next = "clients"
    /\ arg' = Some([arg.value EXCEPT !.next = "revenue",
                                     !.totalClients = Cardinality(clients)])
    /\ UNCHANGED <<clients, settings, invoices, invoiceItems, nextId, form,
                   nextInvoiceNumber, pc, req, seen, origin, issued, ret>>

\* the sum of the totals of the paid invoices, and the return
StatsRevenue ==
    /\ arg.defined
    /\ arg.value.next = "revenue"
    /\ ret' = Some([totalInvoices   |-> arg.value.totalInvoices,
                    paidInvoices    |-> arg.value.paidInvoices,
                    pendingInvoices |-> arg.value.pendingInvoices,
                    totalClients    |-> arg.value.totalClients,
                    totalRevenue    |-> toString(SumOfPaid(invoices, Len(invoices)))])
    /\ arg' = Undefined
    /\ UNCHANGED <<clients, settings, invoices, invoiceItems, nextId, form,
                   nextInvoiceNumber, pc, req, seen, origin, issued>>

NextStats ==
    \/ StatsCountTotal
    \/ StatsCountPaid
    \/ StatsCountPending
    \/ StatsCountClients
    \/ StatsRevenue
    \/ \E data \in StatsInputs : nextId <= MaxInvoices /\ SeqCreate(data)
    \/ \E id \in 1..MaxInvoices, data \in StatsInputs : SeqUpdate(id, data)
    \/ \E id \in 1..MaxInvoices : SeqDelete(id)

SpecStats == Init /\ [][NextStats]_vars

-----------------------------------------------------------------------------
(* The server: the error handling middleware *)

\* a || b on a number that may be undefined: undefined and 0 are falsy.
OrNumber(a, b) == IF ~a.defined \/ a.value = 0 THEN b ELSE a

\* A variant of errorStatus that answers every error with 500.
errorStatusAlways500(err) == 500

\* const status = err.status || err.statusCode || 500
errorStatus(err) == OrNumber(err.status, OrNumber(err.statusCode, Some(500))).value

\* const message = err.message || "Internal Server Error"
errorMessage(err) ==
    OrElse(err.message, <<"I", "n", "t", "e", "r", "n", "a", "l", " ", "S", "e", "r", "v", "e", "r",
                          " ", "E", "r", "r", "o", "r">>)

\* The errors a route passes on: with and without status, statusCode and message.
Errors ==
    [status     : {Undefined, Some(0), Some(400), Some(404)},
     statusCode : {Undefined, Some(0), Some(401), Some(503)},
     message    : {Undefined, Some(<<>>), Some(<<"N", "o", "t", " ", "f", "o", "u", "n", "d">>),
                   Some(<<"b", "o", "o", "m">>)}]

\* What the route had sent of its own response when it failed.
SentByRoute == [status |-> 200, body |-> [data |-> "of the route"]]

\* No request yet. arg keeps the request that failed: the error, whether the
\* route had begun its response, res.headersSent and whether the handler has run; ret what was sent for the request and what
\* was written to the console.
InitErr ==
    /\ arg = Undefined
    /\ ret = [sent |-> <<>>, console |-> <<>>]
    /\ NothingElse

\* A route fails with err, before or after it began its response, and Express
\* passes err to the error handling middleware.
RouteFails(err, headersSent) ==
    /\ arg.defined => arg.value.handled
    /\ arg' = Some([err |-> err, begun |-> headersSent, headersSent |-> headersSent,
                    handled |-> FALSE])
    /\ ret' = [sent |-> IF headersSent THEN <<SentByRoute>> ELSE <<>>, console |-> <<>>]
    /\ UNCHANGED <<clients, settings, invoices, invoiceItems, nextId, form,
                   nextInvoiceNumber, pc, req, seen, origin, issued>>

\* app.use((err, _req, res, _next) => ...)
ErrorHandler ==
    /\ arg.defined
    /\ ~arg.value.handled
    /\ LET err     == arg.value.err
           status  == errorStatus(err)
           message == errorMessage(err)
       IN  /\ ret' = [sent    |-> IF ~arg.value.headersSent
                                  THEN Append(ret.sent, [status |-> status,
                                                         body   |-> [message |-> message]])
                                  ELSE ret.sent,
                      console |-> Append(ret.console, err)]
           /\ arg' = Some([arg.value EXCEPT !.handled = TRUE, !.headersSent = TRUE])
    /\ UNCHANGED <<clients, settings, invoices, invoiceItems, nextId, form,
                   nextInvoiceNumber, pc, req, seen, origin, issued>>

NextErr ==
    \/ \E err \in Errors, headersSent \in BOOLEAN : RouteFails(err, headersSent)
    \/ ErrorHandler

SpecErr == InitErr /\ [][NextErr]_vars

-----------------------------------------------------------------------------
(* The invoice form: its list of lines under Add Item and Remove Item *)

\* The lines a form may hold in a behaviour of the list of lines.
MaxLines == 5

\* defaultValues.items: the lines of the invoice when the form has one, one new
\* line when not.
initialItems(invoice) ==
    IF invoice.defined THEN defaultItems(invoice.value.items) ELSE <<NewLine>>

\* useFieldArray: remove(index), index counted from 0
remove(fields, index) ==
    [i \in 1..(Len(fields) - 1) |-> IF i <= index THEN fields[i] ELSE fields[i + 1]]

\* handleAddItem
handleAddItem(fields) == Append(fields, NewLine)

\* A variant of handleRemoveItem that removes the line whatever the length.
handleRemoveItemAlways(fields, index) == remove(fields, index)

\* handleRemoveItem
handleRemoveItem(fields, index) ==
    IF Len(fields) > 1 THEN remove(fields, index) ELSE fields

\* The invoices the form is opened on: none, and invoices with one, two and three
\* lines.
FormInvoices ==
    {Undefined,
     Some([items |-> CreateRequestOf[FormData("draft", <<LineA>>)].items]),
     Some([items |-> CreateRequestOf[FormData("sent", <<LineB, LineC>>)].items]),
     Some([items |-> CreateRequestOf[FormData("paid", <<LineA, LineB, LineC>>)].items])}

\* The form as it is mounted. arg keeps its lines, ret the last click: the
\* button, the index of its line and the number of lines before it.
InitLines ==
    /\ \E invoice \in FormInvoices : arg = initialItems(invoice)
    /\ ret = Undefined
    /\ NothingElse

\* The button Add Item.
HandleAddItem ==
    /\ Len(arg) < MaxLines
    /\ arg' = handleAddItem(arg)
    /\ ret' = Some([button |-> "add", index |-> Len(arg), before |-> Len(arg)])
    /\ UNCHANGED <<clients, settings, invoices, invoiceItems, nextId, form,
                   nextInvoiceNumber, pc, req, seen, origin, issued>>

\* The remove button of the line at index.
HandleRemoveItem(index) ==
    /\ index < Len(arg)
    /\ arg' = handleRemoveItem(arg, index)
    /\ ret' = Some([button |-> "remove", index |-> index, before |-> Len(arg)])
    /\ UNCHANGED <<clients, settings, invoices, invoiceItems, nextId, form,
                   nextInvoiceNumber, pc, req, seen, origin, issued>>

NextLines ==
    \/ HandleAddItem
    \/ \E index \in 0..(MaxLines - 1) : HandleRemoveItem(index)

SpecLines == InitLines /\ [][NextLines]_vars

-----------------------------------------------------------------------------
(* The PDF export: generatePDF, from await to await, called twice *)

\* The calls of generatePDF; each creates its own tempContainer, named after it.
PdfCalls == {"p1", "p2"}

NoCall == [at |-> "idle", failed |-> "", settings |-> "none"]

\* A variant of removeChild that leaves the child in the document.
removeChildNothing(body, child) == body

\* document.body.removeChild(child)
removeChild(body, child) == body \ {child}

\* catch and finally of a call that failed at a step: the error is logged and
\* replaced, the container removed, the promise rejected.
PdfFails(c, step) ==
    /\ arg' = [body  |-> removeChild(arg.body, c),
               calls |-> [arg.calls EXCEPT ![c] = [@ EXCEPT !.at = "settled", !.failed = step]]]
    /\ ret' = [ret EXCEPT !.outcome[c] = Some([status  |-> "rejected",
                                               message |-> "Failed to generate PDF"]),
                          !.console = @ \cup {<<c, step>>}]

\* No call yet. arg keeps the children of document.body and, for each call, the
\* await it is at and the step it failed at; ret the outcome of each call, the
\* console and the files that were saved.
InitPdf ==
    /\ arg = [body |-> {}, calls |-> [c \in PdfCalls |-> NoCall]]
    /\ ret = [outcome |-> [c \in PdfCalls |-> Undefined], console |-> {}, saved |-> {}]
    /\ NothingElse

\* generatePDF(invoice) up to its first await: the container is created and
\* appended, and the settings are requested.
PdfStart(c) ==
    /\ arg.calls[c].at = "idle"
    /\ arg' = [body  |-> arg.body \cup {c},
               calls |-> [arg.calls EXCEPT ![c] = [NoCall EXCEPT !.at = "fetch"]]]
    /\ UNCHANGED ret
    /\ UNCHANGED <<clients, settings, invoices, invoiceItems, nextId, form,
                   nextInvoiceNumber, pc, req, seen, origin, issued>>

\* await fetch('/api/settings') settles: rejected, or a response that is ok or
\* not. Without an ok response the settings are [] and the call goes on to fill
\* the container and to await html2canvas.
PdfFetched(c, response) ==
    /\ arg.calls[c].at = "fetch"
    /\ CASE response = "rejected" -> PdfFails(c, "fetch")
         [] response = "ok" ->
                /\ arg' = [arg EXCEPT !.calls[c].at = "json"]
                /\ UNCHANGED ret
         [] response = "not ok" ->
                /\ arg' = [arg EXCEPT !.calls[c].at = "html2canvas", !.calls[c].settings = "[]"]
                /\ UNCHANGED ret
    /\ UNCHANGED <<clients, settings, invoices, invoiceItems, nextId, form,
                   nextInvoiceNumber, pc, req, seen, origin, issued>>

\* await settingsResponse.json() settles: rejected, an array, or a value without
\* find, on which the first getSettingValue throws.
PdfJson(c, body) ==
    /\ arg.calls[c].at = "json"
    /\ CASE body = "rejected" -> PdfFails(c, "json")
         [] body = "no array" -> PdfFails(c, "getSettingValue")
         [] body = "array" ->
                /\ arg' = [arg EXCEPT !.calls[c].at = "html2canvas", !.calls[c].settings = "array"]
                /\ UNCHANGED ret
    /\ UNCHANGED <<clients, settings, invoices, invoiceItems, nextId, form,
                   nextInvoiceNumber, pc, req, seen, origin, issued>>

\* await html2canvas(tempContainer, ...) settles: rejected, or a canvas from which
\* the PDF is made and saved, or a canvas on which one of toDataURL, addImage and
\* save throws. Then finally, and the promise settles.
PdfRasterized(c, result) ==
    /\ arg.calls[c].at = "html2canvas"
    /\ CASE result = "rejected" -> PdfFails(c, "html2canvas")
         [] result = "throws" -> PdfFails(c, "save")
         [] result = "saved" ->
                /\ arg' = [body  |-> removeChild(arg.body, c),
                           calls |-> [arg.calls EXCEPT ![c].at = "settled"]]
                /\ ret' = [ret EXCEPT !.outcome[c] = Some([status |-> "fulfilled", message |-> ""]),
                                      !.saved = @ \cup {c}]
    /\ UNCHANGED <<clients, settings, invoices, invoiceItems, nextId, form,
                   nextInvoiceNumber, pc, req, seen, origin, issued>>

NextPdf ==
    \/ \E c \in PdfCalls : PdfStart(c)
    \/ \E c \in PdfCalls, response \in {"rejected", "ok", "not ok"} : PdfFetched(c, response)
    \/ \E c \in PdfCalls, body \in {"rejected", "no array", "array"} : PdfJson(c, body)
    \/ \E c \in PdfCalls, result \in {"rejected", "throws", "saved"} : PdfRasterized(c, result)

SpecPdf == InitPdf /\ [][NextPdf]_vars

-----------------------------------------------------------------------------
(* The server: the logging middleware *)

\* The responses a line is long enough for, in characters of the message.
MaxMessage == 40

\* JSON values: null, a number, a string, an array, and an object as the list of
\* its members.
JsonNull == [t |-> "null"]

JsonNumber(n) == [t |-> "number", n |-> n]

JsonString(s) == [t |-> "string", s |-> s]

JsonArray(elements) == [t |-> "array", elements |-> elements]

JsonObject(members) == [t |-> "object", members |-> members]

\* if (capturedJsonResponse): undefined, null, 0 and "" are falsy.
Truthy(captured) ==
    /\ captured.defined
    /\ captured.value.t # "null"
    /\ captured.value.t = "number" => captured.value.n # 0
    /\ captured.value.t = "string" => captured.value.s # <<>>

\* JSON.stringify of a string: in quotes, the quote and the backslash escaped.
RECURSIVE Escaped(_)
Escaped(s) ==
    IF s = <<>> THEN <<>>
    ELSE (IF Head(s) \in {"\"", "\\"} THEN <<"\\", Head(s)>> ELSE <<Head(s)>>) \o Escaped(Tail(s))

Quoted(s) == <<"\"">> \o Escaped(s) \o <<"\"">>

\* JSON.stringify
RECURSIVE stringify(_)
RECURSIVE StringifyAll(_, _)
StringifyAll(values, keyed) ==
    IF values = <<>> THEN <<>>
    ELSE (IF keyed THEN Quoted(Head(values).key) \o <<":">> \o stringify(Head(values).value)
          ELSE stringify(Head(values)))
         \o (IF Len(values) > 1 THEN <<",">> ELSE <<>>)
         \o StringifyAll(Tail(values), keyed)

stringify(v) ==
    CASE v.t = "null"   -> <<"n", "u", "l", "l">>
      [] v.t = "number" -> NatToString(v.n)
      [] v.t = "string" -> Quoted(v.s)
      [] v.t = "array"  -> <<"[">> \o StringifyAll(v.elements, FALSE) \o <<"]">>
      [] v.t = "object" -> <<"{">> \o StringifyAll(v.members, TRUE) \o <<"}">>

\* path.startsWith("/api")
startsWith(s, prefix) == Len(s) >= Len(prefix) /\ SubSeq(s, 1, Len(prefix)) = prefix

\* The character U+2026, the horizontal ellipsis, one character of the line.
Ellipsis == "..."

\* A variant of truncate that leaves the line as long as it is.
truncateNever(logLine) == logLine

\* if (logLine.length > 80) logLine = logLine.slice(0, 79) + "..."
truncate(logLine) ==
    IF Len(logLine) > 80 THEN Append(SubSeq(logLine, 1, 79), Ellipsis) ELSE logLine

\* The line of a finished response, before it is cut.
logLineOf(method, path, statusCode, duration, captured) ==
    method \o <<" ">> \o path \o <<" ">> \o NatToString(statusCode) \o <<" ", "i", "n", " ">>
        \o NatToString(duration) \o <<"m", "s">>
        \o (IF Truthy(captured) THEN <<" ", ":", ":", " ">> \o stringify(captured.value) ELSE <<>>)

\* n times the letter x
Xs(n) == [i \in 1..n |-> "x"]

Methods == {<<"G", "E", "T">>, <<"D", "E", "L", "E", "T", "E">>}

Paths == {<<"/", "a", "p", "i", "/", "c", "l", "i", "e", "n", "t", "s">>,
          <<"/", "a", "p", "i", "/", "i", "n", "v", "o", "i", "c", "e", "s", "/", "n", "e", "x", "t", "/", "n", "u", "m", "b", "e", "r">>,
          <<"/", "a", "p", "i">>,
          <<"/">>,
          <<"/", "a", "s", "s", "e", "t", "s", "/", "i", "n", "d", "e", "x", ".", "j", "s">>,
          <<"/", "a", "p">>,
          <<"/", "a", "p", "i", "d", "o", "c", "s">>}

\* What the routes pass to res.json: nothing (the response is sent without it),
\* null, 0, a message of up to MaxMessage characters, a message with quotes, and
\* an array of two objects.
Bodies ==
    {Undefined, Some(JsonNull), Some(JsonNumber(0)),
     Some(JsonObject(<<[key |-> <<"m", "e", "s", "s", "a", "g", "e">>, value |-> JsonString(<<"s", "a", "y", " ", "\"", "n", "o", "\"">>)]>>)),
     Some(JsonArray(<<JsonObject(<<[key |-> <<"i", "d">>, value |-> JsonNumber(1)]>>),
                      JsonObject(<<[key |-> <<"i", "d">>, value |-> JsonNumber(2)]>>)>>))}
    \cup {Some(JsonObject(<<[key |-> <<"m", "e", "s", "s", "a", "g", "e">>, value |-> JsonString(Xs(n))]>>)) :
              n \in (MaxMessage - 6)..MaxMessage}

\* The milliseconds a response takes.
Durations == {0, 7, 1500}

\* No request yet. arg keeps the request the middleware has seen: its method and
\* path, capturedJsonResponse, res.statusCode and whether the response has
\* finished; ret the lines passed to log for it.
InitLog ==
    /\ arg = Undefined
    /\ ret = <<>>
    /\ NothingElse

\* A request reaches the middleware: path is read, res.json is wrapped, the
\* listener of finish is added, and next() hands the request on.
LogRequest(method, path) ==
    /\ arg.defined => arg.value.finished
    /\ arg' = Some([method |-> method, path |-> path, captured |-> Undefined,
                    statusCode |-> 200, sent |-> FALSE, finished |-> FALSE])
    /\ ret' = <<>>
    /\ UNCHANGED <<clients, settings, invoices, invoiceItems, nextId, form,
                   nextInvoiceNumber, pc, req, seen, origin, issued>>

\* The route answers: with res.status(statusCode).json(body), which passes
\* through the wrapper, or without res.json.
LogRespond(statusCode, body) ==
    /\ arg.defined
    /\ ~arg.value.sent
    /\ arg' = Some([arg.value EXCEPT !.captured = body, !.statusCode = statusCode,
                                     !.sent = TRUE])
    /\ UNCHANGED <<clients, settings, invoices, invoiceItems, nextId, form,
                   nextInvoiceNumber, pc, req, seen, origin, issued, ret>>

\* res emits finish, once, duration milliseconds after the request.
LogFinish(duration) ==
    /\ arg.defined
    /\ arg.value.sent
    /\ ~arg.value.finished
    /\ ret' = IF startsWith(arg.value.path, <<"/", "a", "p", "i">>)
              THEN Append(ret, truncate(logLineOf(arg.value.method, arg.value.path,
                                                  arg.value.statusCode, duration,
                                                  arg.value.captured)))
              ELSE ret
    /\ arg' = Some([arg.value EXCEPT !.finished = TRUE])
    /\ UNCHANGED <<clients, settings, invoices, invoiceItems, nextId, form,
                   nextInvoiceNumber, pc, req, seen, origin, issued>>

NextLog ==
    \/ \E method \in Methods, path \in Paths : LogRequest(method, path)
    \/ \E statusCode \in {200, 404}, body \in Bodies : LogRespond(statusCode, body)
    \/ \E duration \in Durations : LogFinish(duration)

SpecLog == InitLog /\ [][NextLog]_vars

-----------------------------------------------------------------------------
(* Claims *)

\* The prefix in force: the stored invoice_prefix when there is a non-empty one,
\* "INV-" otherwise.
PrefixInForce ==
    IF \E i \in 1..Len(settings) :
           settings[i].key = "invoice_prefix" /\ settings[i].value # <<>>
    THEN settings[CHOOSE i \in 1..Len(settings) : settings[i].key = "invoice_prefix"].value
    ELSE <<"I", "N", "V", "-">>

DecimalDigit(d) == <<"0", "1", "2", "3", "4", "5", "6", "7", "8", "9">>[d + 1]

\* The 4-digit zero-padded form of n < 10000.
FourDigits(n) ==
    <<DecimalDigit(n \div 1000), DecimalDigit((n \div 100) % 10),
      DecimalDigit((n \div 10) % 10), DecimalDigit(n % 10)>>

\* C5: on a store without invoices getNextInvoiceNumber returns the prefix followed
\* by "0001", and "INV-0001" when no prefix setting is stored.
C5_FirstNumber ==
    (ret.defined /\ invoices = <<>>) =>
        /\ ret.value = PrefixInForce \o <<"0", "0", "0", "1">>
        /\ (\A i \in 1..Len(settings) : settings[i].key # "invoice_prefix") =>
               ret.value = <<"I", "N", "V", "-", "0", "0", "0", "1">>

C5_Witness ==
    /\ ret.defined
    /\ invoices = <<>>
    /\ getSetting(settings, "invoice_prefix") = Some(PrefixX)
    /\ ret.value = <<"X", "-", "0", "0", "0", "1">>

\* C6: when the last invoice is numbered prefix + the 4-digit form of n, with
\* 1 <= n <= 9998, getNextInvoiceNumber returns prefix + the 4-digit form of n + 1.
C6_Increment ==
    (/\ ret.defined
     /\ arg.defined
     /\ arg.value >= 1 /\ arg.value <= 9998
     /\ LastInvoice(invoices).invoiceNumber = PrefixInForce \o FourDigits(arg.value))
        => ret.value = PrefixInForce \o FourDigits(arg.value + 1)

C6_Witness ==
    /\ ret.defined
    /\ arg = Some(42)
    /\ settings = <<>>
    /\ LastInvoice(invoices).invoiceNumber = <<"I", "N", "V", "-", "0", "0", "4", "2">>
    /\ ret.value = <<"I", "N", "V", "-", "0", "0", "4", "3">>

\* C2: under requests served one after the other (create with the number just
\* returned, update, delete) no two stored invoices have the same invoiceNumber.
C2_UniqueNumbers ==
    \A i, j \in 1..Len(invoices) :
        i # j => invoices[i].invoiceNumber # invoices[j].invoiceNumber

C2_Witness ==
    /\ Len(invoices) >= 3
    /\ Len(issued) > Len(invoices)
    /\ \E i \in 1..Len(invoices) : invoices[i].status = "sent"
    /\ C2_UniqueNumbers

\* The number after the prefix in force, as an integer or NaN.
SuffixOf(number) == parseInt(ReplaceWithEmpty(number, PrefixInForce))

\* C3: the suffix of each allocated number is strictly greater than the suffix of
\* every number allocated earlier, also after invoices were deleted.
C3_Monotonic ==
    \A i, j \in 1..Len(issued) :
        i < j => /\ ~SuffixOf(issued[i]).nan
                 /\ ~SuffixOf(issued[j]).nan
                 /\ SuffixOf(issued[i]).val < SuffixOf(issued[j]).val

\* C1: two stored invoices whose numbers were read from the same store contents,
\* before either of them was persisted, carry the same invoiceNumber.
C1_SameReadSameNumber ==
    \A i, j \in 1..Len(invoices) :
        (/\ i # j
         /\ origin[invoices[i].id].read
         /\ origin[invoices[i].id] = origin[invoices[j].id])
            => invoices[i].invoiceNumber = invoices[j].invoiceNumber

\* Both create requests are in flight and their invoice rows share one number.
C1_Witness ==
    /\ \A b \in Browsers : pc[b] = "createItems"
    /\ Len(invoices) = 2
    /\ origin[invoices[1].id].read
    /\ origin[invoices[1].id] = origin[invoices[2].id]
    /\ invoices[1].invoiceNumber = invoices[2].invoiceNumber

\* C4: a step that creates an invoice stores it with the number
\* getNextInvoiceNumber returns for the store as it is at that step.
C4_NumberFromAllocator ==
    [][nextId' > nextId =>
          invoices'[Len(invoices')].invoiceNumber = getNextInvoiceNumber(invoices, settings)]_vars

BeginsWith(str, p) == Len(str) >= Len(p) /\ SubSeq(str, 1, Len(p)) = p

\* C7: once the General Settings form has saved a prefix, every number that
\* getNextInvoiceNumber returns begins with that prefix.
C7_SavedPrefixUsed ==
    [][\A b \in Browsers :
          (seen'[b] # seen[b] /\ getSetting(settings, "invoicePrefix").defined)
              => BeginsWith(nextInvoiceNumber'[b].value,
                            getSetting(settings, "invoicePrefix").value)]_vars

\* C9: no step changes the invoiceNumber of an invoice that is stored before and
\* after it.
C9_NumberImmutable ==
    [][\A i \in 1..Len(invoices), j \in 1..Len(invoices') :
          invoices[i].id = invoices'[j].id
              => invoices'[j].invoiceNumber = invoices[i].invoiceNumber]_vars

\* An invoice created from the first input has had its row updated from the second
\* and still carries the number it was issued.
C9_Witness ==
    \E b \in Browsers :
        /\ pc[b] = "updateDelete"
        /\ req[b].id \in Ids(invoices)
        /\ RowOf(invoices, req[b].id).status = "sent"
        /\ RowOf(invoices, req[b].id).total # <<"2", "3", "6">>
        /\ \E r \in invoiceItems : r.invoiceId = req[b].id /\ r.amount = <<"2", "3", "6">>
        /\ RowOf(invoices, req[b].id).invoiceNumber = issued[req[b].id]

\* C8: every stored invoice has total = subtotal - discountAmount + taxAmount, in
\* the numbers its stored strings denote, after a create and after every update.
C8_TotalOfParts ==
    \A i \in 1..Len(invoices) :
        LET subtotal       == parseFloat(invoices[i].subtotal)
            discountAmount == parseFloat(invoices[i].discountAmount)
            taxAmount      == parseFloat(invoices[i].taxAmount)
            total          == parseFloat(invoices[i].total)
        IN  /\ ~subtotal.nan /\ ~discountAmount.nan /\ ~taxAmount.nan /\ ~total.nan
            /\ total.num = fadd(fsub(subtotal.num, discountAmount.num), taxAmount.num)

\* An invoice created from one list of lines has had its row updated from another,
\* with a discount and a tax that are not whole numbers.
C8_Witness ==
    /\ pc["b1"] = "updateDelete"
    /\ req["b1"].id \in Ids(invoices)
    /\ \E r \in invoiceItems : r.invoiceId = req["b1"].id /\ r.amount = <<"2", "3", "6">>
    /\ LET row == RowOf(invoices, req["b1"].id)
       IN  /\ row.total # <<"2", "3", "6">>
           /\ parseFloat(row.discountAmount).num.e < 0
           /\ parseFloat(row.taxAmount).num.e < 0
           /\ parseFloat(row.total).num
                  = fadd(fsub(parseFloat(row.subtotal).num, parseFloat(row.discountAmount).num),
                         parseFloat(row.taxAmount).num)

\* The amount of the claim, from the numbers of the line.
AmountOf(item) ==
    LET lineSubtotal  == fmul(item.quantity, item.rate)
        discount      == fdiv(fmul(lineSubtotal, item.discountRate), Hundred)
        afterDiscount == fsub(lineSubtotal, discount)
        tax           == fdiv(fmul(afterDiscount, item.taxRate), Hundred)
    IN  fadd(afterDiscount, tax)

\* C10: the amount stored for a valid line is afterDiscount + tax; 2 x 100 with tax
\* 18 gives 236 and 1 x 1000 with discount 10 gives 900.
C10_LineAmount ==
    (ret.defined /\ invoiceItemSchema(arg.value)) =>
        /\ ~parseFloat(ret.value.amount).nan
        /\ parseFloat(ret.value.amount).num = AmountOf(arg.value)
        /\ arg.value = LineA => ret.value.amount = <<"2", "3", "6">>
        /\ arg.value = LineB => ret.value.amount = <<"9", "0", "0">>

\* A line with a discount and a tax whose amount is not a whole number.
C10_Witness ==
    /\ ret.defined
    /\ invoiceItemSchema(arg.value)
    /\ arg.value.discountRate = FromInt(33)
    /\ arg.value.taxRate = FromDecimal(125, 1)
    /\ parseFloat(ret.value.amount).num.e < 0
    /\ parseFloat(ret.value.amount).num = AmountOf(arg.value)

\* The sum of the numbers of a sequence, from the left.
RECURSIVE SumOf(_, _)
SumOf(terms, n) == IF n = 0 THEN Zero ELSE fadd(SumOf(terms, n - 1), terms[n])

LineSubtotalOf(item) == fmul(item.quantity, item.rate)

LineDiscountOf(item) == fdiv(fmul(LineSubtotalOf(item), item.discountRate), Hundred)

LineTaxOf(item) ==
    fdiv(fmul(fsub(LineSubtotalOf(item), LineDiscountOf(item)), item.taxRate), Hundred)

\* The aggregates of a result are the sums of the claim over the lines.
AggregatesAreSums(res, items) ==
    LET n              == Len(items)
        subtotal       == SumOf([i \in 1..n |-> LineSubtotalOf(items[i])], n)
        discountAmount == SumOf([i \in 1..n |-> LineDiscountOf(items[i])], n)
        taxAmount      == SumOf([i \in 1..n |-> LineTaxOf(items[i])], n)
    IN  /\ parseFloat(res.subtotal) = Finite(subtotal)
        /\ parseFloat(res.discountAmount) = Finite(discountAmount)
        /\ parseFloat(res.taxAmount) = Finite(taxAmount)
        /\ parseFloat(res.total) = Finite(fadd(fsub(subtotal, discountAmount), taxAmount))

\* C11: for every list of valid lines the aggregates create and update compute are
\* subtotal = sum of quantity * rate, discountAmount = sum of the line discounts,
\* taxAmount = sum of the line taxes on the discounted line subtotals, and
\* total = subtotal - discountAmount + taxAmount.
C11_AggregatesAreSums ==
    /\ (ret.create.defined /\ ret.create.value.outcome = "computed") =>
           AggregatesAreSums(ret.create.value, zodResolver(arg.value).data.items)
    /\ (ret.update.defined /\ ret.update.value.outcome = "computed") =>
           AggregatesAreSums(ret.update.value, zodResolver(arg.value).data.items)

\* Both paths have computed the aggregates of two lines with discounts and taxes
\* that are not whole numbers.
C11_Witness ==
    /\ ret.create.defined /\ ret.create.value.outcome = "computed"
    /\ ret.update.defined /\ ret.update.value.outcome = "computed"
    /\ Len(arg.value.items) = 2
    /\ parseFloat(ret.create.value.discountAmount).num.e < 0
    /\ parseFloat(ret.update.value.taxAmount).num.e < 0
    /\ ret.create.value.total # ret.create.value.subtotal

\* What is stored of the lines of an invoice, whatever the order of the rows.
StoredLines(rows, id) ==
    {<<r.description, r.quantity, r.rate, r.taxRate, r.discountRate, r.amount>>
        : r \in {x \in rows : x.invoiceId = id}}

\* C12: saving a stored invoice from the edit form without changing a line stores
\* the same subtotal, discountAmount, taxAmount, total and line amounts as before,
\* however often it is done.
C12_ResaveChangesNothing ==
    [][\A id \in Ids(invoices) \cap Ids(invoices') :
          /\ RowOf(invoices', id).subtotal = RowOf(invoices, id).subtotal
          /\ RowOf(invoices', id).discountAmount = RowOf(invoices, id).discountAmount
          /\ RowOf(invoices', id).taxAmount = RowOf(invoices, id).taxAmount
          /\ RowOf(invoices', id).total = RowOf(invoices, id).total
          /\ StoredLines(invoiceItems', id) = StoredLines(invoiceItems, id)]_vars

\* C13: for the same list of lines the create path, the update path, the preview
\* and the totals shown in the form yield the same line amounts, subtotal,
\* discount amount, tax amount and total.
C13_PathsAgree ==
    (/\ ret.create.defined /\ ret.update.defined /\ ret.preview.defined /\ ret.live.defined
     /\ ret.create.value.outcome = "computed")
        => /\ ret.update.value = ret.create.value
           /\ ret.preview.value = ret.create.value
           /\ jtoString(ret.live.value.subtotal) = ret.create.value.subtotal
           /\ jtoString(ret.live.value.discount) = ret.create.value.discountAmount
           /\ jtoString(ret.live.value.tax) = ret.create.value.taxAmount
           /\ jtoString(ret.live.value.grandTotal) = ret.create.value.total

\* The lines the claim calls invalid, by the numbers of their fields.
InvalidLine(item) ==
    LET c == CoerceItem(item)
    IN  /\ IsNumbers(c)
        /\ \/ ~flt(Zero, c.quantity.num)
           \/ flt(c.rate.num, Zero)
           \/ flt(c.taxRate.num, Zero) \/ flt(Hundred, c.taxRate.num)
           \/ flt(c.discountRate.num, Zero) \/ flt(Hundred, c.discountRate.num)

\* The lines the claim calls valid.
ValidLine(item) ==
    LET c == CoerceItem(item)
    IN  /\ IsNumbers(c)
        /\ item.description # ""
        /\ flt(Zero, c.quantity.num)
        /\ ~flt(c.rate.num, Zero)
        /\ ~flt(c.taxRate.num, Zero) /\ ~flt(Hundred, c.taxRate.num)
        /\ ~flt(c.discountRate.num, Zero) /\ ~flt(Hundred, c.discountRate.num)

\* C14: no path of the form (submit for create, submit for update, Preview)
\* computes amounts or totals from a form with a line of quantity <= 0, rate < 0
\* or a tax or discount rate outside [0, 100], and a form of lines with quantity
\* > 0, rate >= 0 and rates in [0, 100] is accepted.
C14_InvalidLineRejected ==
    LET items == arg.value.items
    IN  /\ (\E i \in 1..Len(items) : InvalidLine(items[i])) =>
               /\ ret.create.defined => ret.create.value.outcome # "computed"
               /\ ret.update.defined => ret.update.value.outcome # "computed"
               /\ ret.preview.defined => ret.preview.value.outcome # "computed"
        /\ (arg.value.clientId # "" /\ \A i \in 1..Len(items) : ValidLine(items[i])) =>
               /\ ret.create.defined => ret.create.value.outcome = "computed"
               /\ ret.update.defined => ret.update.value.outcome = "computed"

\* C15: a submit of the form of a new invoice without a client sends no create
\* request and persists no invoice; the client field shows the error and no
\* request is left to be sent later.
C15_NoClientNoInvoice ==
    [][(ret'.value.n = ret.value.n + 1 /\ arg'.value.clientId = "")
          => /\ invoices' = invoices
             /\ invoiceItems' = invoiceItems
             /\ nextId' = nextId
             /\ pc' = pc /\ pc'["b1"] = "idle"
             /\ req' = req /\ req'["b1"] = NoRequest
             /\ ret'.value.clientId = "Please select a client"]_vars

\* After one invoice was created, a submit without a client was rejected.
C15_Witness ==
    /\ arg.defined /\ arg.value.clientId = ""
    /\ ret.value.n >= 2
    /\ ret.value.clientId = "Please select a client"
    /\ Len(invoices) = 1
    /\ \E r \in invoiceItems : r.invoiceId = invoices[1].id
    /\ form["b1"].mode = "new"
    /\ pc["b1"] = "idle"

C17_ItemsOfOneUpdate ==
    (\A b \in Browsers : pc[b] = "idle") =>
        \E data \in AllFormInputs :
            {r \in invoiceItems : r.invoiceId = 1}
                = insertInvoiceItems({}, 1, UpdateRequestOf[data].items)

RowsWithKey(table, key) == {i \in 1..Len(table) : table[i].key = key}

C19_PastFourDigits ==
    (/\ ret.defined
     /\ arg.defined
     /\ arg.value >= 9999
     /\ LastInvoice(invoices).invoiceNumber = PrefixInForce \o NatToString(arg.value))
        => /\ ret.value = PrefixInForce \o NatToString(arg.value + 1)
           /\ Len(ret.value) = Len(PrefixInForce) + 5
           /\ arg.value = 9999 => ret.value = PrefixInForce \o <<"1", "0", "0", "0", "0">>

C19_Witness ==
    /\ ret.defined
    /\ arg = Some(9999)
    /\ settings = <<>>
    /\ LastInvoice(invoices).invoiceNumber = <<"I", "N", "V", "-", "9", "9", "9", "9">>
    /\ ret.value = <<"I", "N", "V", "-", "1", "0", "0", "0", "0">>

\* C20: whatever the last stored number and the prefix in force, the call
\* returns the prefix in force followed by decimal digits only, four at least.
C20_WellFormed ==
    ret.defined =>
        /\ BeginsWith(ret.value, PrefixInForce)
        /\ Len(ret.value) >= Len(PrefixInForce) + 4
        /\ \A i \in (Len(PrefixInForce) + 1)..Len(ret.value) : IsDigit(ret.value[i])

\* C21: every invoice row of the store has at least one item row, in every state
\* of createInvoice and updateInvoice, between their writes included.
C21_EveryInvoiceHasItems ==
    \A i \in 1..Len(invoices) :
        \E r \in invoiceItems : r.invoiceId = invoices[i].id

\* The item rows of an invoice.
ItemRowsOf(rows, id) == {r \in rows : r.invoiceId = id}

\* The rows are the items of the list, one row for each and no other.
RowsAreItems(rows, items) ==
    /\ Cardinality(rows) = Len(items)
    /\ \A i \in 1..Len(items) :
           \E r \in rows :
               /\ r.line = i
               /\ <<r.description, r.quantity, r.rate, r.taxRate, r.discountRate, r.amount>>
                      = <<items[i].description, items[i].quantity, items[i].rate,
                          items[i].taxRate, items[i].discountRate, items[i].amount>>

\* C22: updateInvoice(id, data, items) on an id that is not stored returns
\* undefined and changes neither table; on a stored id with items it leaves the
\* invoice with exactly the given items, without items it leaves the invoice's
\* items as they were; the items of every other invoice stay as they were.
C22_UpdateInvoiceEffect ==
    arg.defined =>
        LET a == arg.value
        IN  /\ a.id \notin Ids(a.invoices) =>
                   /\ ret = Undefined
                   /\ invoices = a.invoices
                   /\ invoiceItems = a.invoiceItems
            /\ (a.id \in Ids(a.invoices) /\ a.items.defined) =>
                   RowsAreItems(ItemRowsOf(invoiceItems, a.id), a.items.value)
            /\ (a.id \in Ids(a.invoices) /\ ~a.items.defined) =>
                   ItemRowsOf(invoiceItems, a.id) = ItemRowsOf(a.invoiceItems, a.id)
            /\ \A other \in 1..3 :
                   other # a.id =>
                       ItemRowsOf(invoiceItems, other) = ItemRowsOf(a.invoiceItems, other)

\* Invoice 2 held two lines and a call gave it the one line 2 x 100.
C22_Witness ==
    /\ arg.defined
    /\ arg.value.id = 2
    /\ arg.value.items.defined
    /\ Len(arg.value.items.value) = 1
    /\ Cardinality(ItemRowsOf(arg.value.invoiceItems, 2)) = 2
    /\ Cardinality(ItemRowsOf(invoiceItems, 2)) = 1
    /\ ret = Some(2)

\* C23: for every stored invoice the amounts of its item rows, added up as
\* numbers (in some order of the rows), give the invoice's total.
C23_AmountsSumToTotal ==
    \A k \in 1..Len(invoices) :
        \E order \in Orderings(ItemRowsOf(invoiceItems, invoices[k].id)) :
            SumOf([i \in 1..Len(order) |-> parseFloat(order[i].amount).num], Len(order))
                = parseFloat(invoices[k].total).num

\* C24: with calls served one after the other, getSetting(k) returns the value of
\* the last setSetting(k, v), undefined when there was none, the table has at most
\* one row per key, and a setSetting leaves the values of the other keys alone.
C24_SettingsAreAMap ==
    /\ \A k \in CallKeys :
           /\ getSetting(settings, k) = arg.last[k]
           /\ Cardinality(RowsWithKey(settings, k)) <= 1
           /\ \A i \in RowsWithKey(settings, k) : Some(settings[i].value) = arg.last[k]
    /\ ret.defined => ret.value.result = arg.last[ret.value.key]

\* The prefix was set twice and reads as the second value, the currency set
\* before it still reads as it was set, and the due days were never set.
C24_Witness ==
    /\ Len(settings) = 2
    /\ settings[1].key = "defaultCurrency"
    /\ settings[2].key = "invoice_prefix"
    /\ arg.last["defaultCurrency"] = Some(<<"X", "-">>)
    /\ arg.last["invoice_prefix"] = Some(<<"Y", "-">>)
    /\ arg.again = {"invoice_prefix"}
    /\ ret = Some([key |-> "invoice_prefix", result |-> Some(<<"Y", "-">>)])
    /\ getSetting(settings, "defaultDueDays") = Undefined

\* C25: every result of getDashboardStats has paidInvoices + pendingInvoices
\* <= totalInvoices, so that the dashboard's overdueInvoices is not negative,
\* also when invoices are written while the call's queries run.
C25_StatsConsistent ==
    ret.defined =>
        /\ ret.value.paidInvoices + ret.value.pendingInvoices <= ret.value.totalInvoices
        /\ overdueInvoices(ret.value) >= 0

\* The status the claim names for an error: its status, else its statusCode, else
\* 500.
StatusOfClaim(err) ==
    CASE err.status.defined /\ err.status.value # 0         -> err.status.value
      [] err.statusCode.defined /\ err.statusCode.value # 0 -> err.statusCode.value
      [] OTHER                                              -> 500

\* C26: the error handler answers a failed request whose headers were not sent
\* with the error's status (status, else statusCode, else 500) and the JSON body
\* {message}; when the headers were sent it sends nothing; no request ever has two
\* responses.
C26_OneErrorResponse ==
    /\ Len(ret.sent) <= 1
    /\ (arg.defined /\ arg.value.handled) =>
           IF arg.value.begun
           THEN ret.sent = <<SentByRoute>>
           ELSE /\ Len(ret.sent) = 1
                /\ ret.sent[1].status = StatusOfClaim(arg.value.err)
                /\ DOMAIN ret.sent[1].body = {"message"}
                /\ (arg.value.err.message.defined /\ arg.value.err.message.value # <<>>)
                       => ret.sent[1].body.message = arg.value.err.message.value

\* An error without status and with statusCode 503 was answered with 503 and its
\* message.
C26_Witness ==
    /\ arg.defined
    /\ arg.value.handled
    /\ ~arg.value.begun
    /\ arg.value.err.status = Undefined
    /\ arg.value.err.statusCode = Some(503)
    /\ ret.sent = <<[status |-> 503, body |-> [message |-> <<"b", "o", "o", "m">>]]>>

\* C27: a form that is mounted with at least one line has at least one line after
\* every sequence of Add Item and Remove Item: a remove takes a line away only
\* when there is more than one.
C27_AtLeastOneLine ==
    /\ Len(arg) >= 1
    /\ (ret.defined /\ ret.value.button = "remove") =>
           Len(arg) = IF ret.value.before > 1 THEN ret.value.before - 1 ELSE 1

\* The remove button of the only line was clicked, and the line is still there.
C27_Witness ==
    /\ ret = Some([button |-> "remove", index |-> 0, before |-> 1])
    /\ Len(arg) = 1

\* C28: when a call of generatePDF has settled its container is not in the
\* document, whether the call saved the file or failed at the fetch, the JSON,
\* the settings, the rasterization or the save; a call that failed is rejected
\* with the error 'Failed to generate PDF', a call that did not is fulfilled.
C28_ContainerRemoved ==
    \A c \in PdfCalls :
        /\ ret.outcome[c].defined <=> arg.calls[c].at = "settled"
        /\ ret.outcome[c].defined =>
               /\ c \notin arg.body
               /\ IF arg.calls[c].failed # ""
                  THEN ret.outcome[c].value = [status  |-> "rejected",
                                               message |-> "Failed to generate PDF"]
                  ELSE ret.outcome[c].value.status = "fulfilled"

\* One call failed at the rasterization and is rejected, the other is still
\* waiting for its settings with its container in the document.
C28_Witness ==
    /\ arg.calls["p1"].failed = "html2canvas"
    /\ ret.outcome["p1"] = Some([status |-> "rejected", message |-> "Failed to generate PDF"])
    /\ arg.calls["p2"].at = "fetch"
    /\ arg.body = {"p2"}

\* C29: the logger passes a line to log only for a request whose path starts
\* with "/api", one line when its response has finished and none before, and no
\* line is longer than 80 characters: a line that would be is cut to its first 79
\* characters and an ellipsis.
C29_LogLines ==
    /\ \A i \in 1..Len(ret) :
           /\ Len(ret[i]) <= 80
           /\ BeginsWith(arg.value.path, <<"/", "a", "p", "i">>)
    /\ arg.defined =>
           Len(ret) = IF arg.value.finished /\ BeginsWith(arg.value.path, <<"/", "a", "p", "i">>) THEN 1 ELSE 0
    /\ (arg.defined /\ Len(ret) = 1) =>
           \E duration \in Durations :
               LET whole == logLineOf(arg.value.method, arg.value.path, arg.value.statusCode,
                                      duration, arg.value.captured)
               IN  IF Len(whole) <= 80 THEN ret[1] = whole
                   ELSE /\ Len(ret[1]) = 80
                        /\ SubSeq(ret[1], 1, 79) = SubSeq(whole, 1, 79)
                        /\ ret[1][80] = Ellipsis

\* A line of 81 characters was cut to 80, the last one the ellipsis.
C29_Witness ==
    /\ arg.defined
    /\ arg.value.finished
    /\ Len(ret) = 1
    /\ Len(ret[1]) = 80
    /\ ret[1][80] = Ellipsis
    /\ \E duration \in Durations :
           Len(logLineOf(arg.value.method, arg.value.path, arg.value.statusCode, duration,
                         arg.value.captured)) = 81

====
